---- MODULE Spec2Model ----
(***************************************************************************)
(* Model of the valyu-agentcore demo application and gateway helpers.      *)
(*                                                                         *)
(*  - examples/app.py: the producer threads (invoke_runtime_streaming for  *)
(*    the runtime mode, run_agent_with_streaming + StreamingCallbackHandler*)
(*    for the local agents), the chat-view polling loop and the compare-   *)
(*    view polling and drain loops of main().                              *)
(*  - valyu_agentcore/gateway.py: the target status poll of                *)
(*    setup_valyu_gateway and add_valyu_target.                            *)
(*                                                                         *)
(* Text is a sequence of tokens.  A token stands for a fixed substring:    *)
(* "a", "b", "r" are single characters, Blk is a run of BlockLen           *)
(* characters that occurs in no other token, and the literals of the       *)
(* program ("Using tool: ", "Error: ", ...) are one token each.  String    *)
(* concatenation is \o, the empty string is <<>>.                          *)
(***************************************************************************)
EXTENDS Integers, Sequences, FiniteSets, TLC

\* ------------------------------------------------------------- bounds
\* Lines read from the runtime stream in one invocation.
MaxLines == 3
\* Callback invocations a local agent makes while answering one prompt.
MaxCallbacks == 2
\* Lines read, and callbacks made, by each producer of a compare query.
MaxCompareEvents == 1
\* Entries of the longest "results" list of a tool-result payload.
MaxResults == 11
\* calls of one tool
MaxSearches == 2
\* queries of one chat session, and callbacks of the agent per query
MaxQueries == 2
MaxQueryCallbacks == 1
\* calls a user makes on one GatewayAgent; events one stream invocation yields
MaxUserCalls == 3

\* ------------------------------------------------------------- constants
\* app.py:285  len(full_response) > 100
PartialThreshold == 100
\* gateway.py:181 and :349  for _ in range(12)
MaxPolls == 12
\* app.py:265  valyu_data.get('results', [])[:10]
MaxSources == 10
\* app.py:267  result.get('title', url)[:60]
TitleMax == 60

\* ------------------------------------------------------------- text
Blk == "#x100"
BlockLen == PartialThreshold

\* a token "#xN" is a block of N characters, any other token one character
BlockTokens == [n \in 1..BlockLen |-> "#x" \o ToString(n)]

CharLen(c) ==
    IF \E n \in 1..BlockLen : c = BlockTokens[n]
    THEN CHOOSE n \in 1..BlockLen : c = BlockTokens[n]
    ELSE 1

RECURSIVE TextLen(_)
\* len(text) for a text made of stream tokens
TextLen(t) == IF t = <<>> THEN 0 ELSE CharLen(Head(t)) + TextLen(Tail(t))

\* the literals of app.py
UsingTool == "Using tool: "
Reconnecting == <<"Reconnecting...">>
IncompleteNote == <<"\n\n---\n*Response may be incomplete due to connection issue.*">>
GenericError == <<"Error: Connection failed. Please try again.">>
ErrorPrefix == <<"Error: ">>
\* the footer literal of app.py:1081 and :1188 (its emoji left out)
ToolsFooter == <<"\n\n---\n**Tools used:** ">>
Sep == "___"

\* A tool name is its "___"-separated segments; <<>> is the empty name.
RECURSIVE RawName(_)
RawName(segs) ==
    IF segs = <<>> THEN <<>>
    ELSE IF Len(segs) = 1 THEN <<segs[1]>>
    ELSE <<segs[1], Sep>> \o RawName(Tail(segs))

\* tool_name.split("___")[-1] if "___" in tool_name else tool_name
CleanName(segs) == IF Len(segs) > 1 THEN <<segs[Len(segs)]>> ELSE RawName(segs)

\* msg_data.replace("Using tool: ", "")
StripUsingTool(t) == SelectSeq(t, LAMBDA c : c # UsingTool)

RECURSIVE JoinNames(_)
\* ', '.join(tools_used)
JoinNames(names) ==
    IF names = <<>> THEN <<>>
    ELSE IF Len(names) = 1 THEN names[1]
    ELSE names[1] \o <<", ">> \o JoinNames(Tail(names))

EndsWithNewline(t) == t # <<>> /\ t[Len(t)] = "\n"

Ev(type, data) == [type |-> type, data |-> data]

\* ------------------------------------------------------------- inputs
Streams == {"with", "without"}

ToolNames == {<<>>, <<"ns", "toolA">>}

\* kwargs.get / dict.get: the marker of a key that is not there
Absent == <<"<absent>">>

\* ------------------------------------------------------------- tool-result payloads
\* The embedded text of a tool result is a sequence of chunks:
\*   "plain"  characters without '{', not all of them whitespace
\*   "space"  whitespace only
\*   "junk"   text that starts with '{' and from which no JSON value decodes
\*   "obj"    the serialisation of the JSON object val
Chunk(t, val) == [t |-> t, val |-> val]

\* a JSON object: has says whether it has a "results" key and whether that
\* is a list ("absent" | "notList" | "list")
JsonObj(has, results) == [has |-> has, results |-> results]
NoVal == JsonObj("absent", <<>>)

\* an entry of "results": a JSON object with optional url, source and title,
\* or (dict = FALSE) a value that is no object
Entry(url, source, title) == [dict |-> TRUE, url |-> url, source |-> source, title |-> title]

\* the i-th of a family of distinct URLs, "u1", "u2", ...
Url(i) == IF i < 10 THEN <<"u", ToString(i)>> ELSE <<"u", "1", ToString(i - 10)>>

\* results of n entries, the i-th with URL Url(i) and title "A"
LongResults(n) == [i \in 1..n |-> Entry(Url(i), Absent, <<"A">>)]

Entries ==
    {Entry(Url(1), Absent, <<"A">>), Entry(Absent, Url(2), <<Blk>>),
     Entry(Absent, Absent, <<"A">>), Entry(<<>>, Url(3), <<"A">>),
     [dict |-> FALSE, url |-> Absent, source |-> Absent, title |-> Absent]}

JsonObjs ==
    {JsonObj("absent", <<>>), JsonObj("notList", <<>>)}
    \cup {JsonObj("list", r) :
             r \in {<<>>} \cup {<<e>> : e \in Entries}
                   \cup {<<Entry(Url(1), Absent, <<"A">>), e>> : e \in Entries}
                   \cup {LongResults(n) : n \in (MaxSources - 1)..MaxResults}}

\* payloads of the reducer specification
Payloads ==
    {<<>>, <<Chunk("plain", NoVal)>>, <<Chunk("junk", NoVal)>>,
     <<Chunk("plain", NoVal), Chunk("junk", NoVal)>>}
    \cup {<<Chunk("obj", v)>> : v \in JsonObjs}
    \cup {<<Chunk("plain", NoVal), Chunk("obj", v)>> : v \in JsonObjs}
    \cup {<<Chunk("obj", JsonObj("list", <<Entry(Url(1), Absent, <<"A">>)>>)), c>> :
            c \in {Chunk("space", NoVal), Chunk("plain", NoVal), Chunk("junk", NoVal)}}
    \cup {<<Chunk("plain", NoVal),
            Chunk("obj", JsonObj("list", <<Entry(Url(1), Absent, <<"A">>)>>)),
            Chunk("plain", NoVal)>>}

\* ------------------------------------------------------------- stream lines
\* One line of the stream, by the branch of the reducer it takes:
\*   k       the branch
\*   text    the delta text, or the text of a message's text block
\*   name    the tool name
\*   status  "none" (no toolResult block) or the toolResult's status
\*   payload the embedded text of the toolResult's content
Line(k, text, name, status, payload) ==
    [k |-> k, text |-> text, name |-> name, status |-> status, payload |-> payload]

Bare(k) == Line(k, <<>>, <<>>, "none", <<>>)
NoLine == Bare("none")

\* lines the loop skips with `continue`:
\*   empty      an empty line (line 180)
\*   malformed  text on which json.loads (line 190) raises JSONDecodeError,
\*              the one exception the loop body catches (line 275)
\*   nonObject  text that json.loads decodes to a value that is no dict
\*              (line 193)
SkippedKinds == {"empty", "malformed", "nonObject"}
\* lines on which an operation of the reducer raises something other than
\* JSONDecodeError, so that the exception leaves the loop:
\*   badBytes       bytes that are not UTF-8 (line 184, decode raises
\*                  UnicodeDecodeError)
\*   badJson        JSON text on which json.loads (line 190) raises
\*                  RecursionError (nesting deeper than the recursion limit)
\*                  or ValueError (an integer of more than 4300 digits)
\*   badEvent       an "event" that is null or a number (line 199, `in`)
\*   badDeltaText   a delta whose "text" is a number other than 0
\*                  (line 207, str += number)
\*   badToolResult  a message whose toolResult's content holds, after the
\*                  items of payload, a number or null: with
\*                  status "success" `'text' in content` (line 256, outside
\*                  the inner try) raises; with another status line 254 keeps
\*                  the content from being read
UnexpectedKinds == {"badBytes", "badJson", "badEvent", "badDeltaText", "badToolResult"}
\* two more kinds carry a value of an unexpected type on which nothing
\* raises; ReduceLine handles each by name:
\*   zeroDeltaText     a delta whose "text" is the number 0 or 0.0: `if text:`
\*                     (line 202) is false
\*   nonObjectContent  a message whose toolResult's content holds, after
\*                     the items of payload, a string without "text" or a
\*                     list: `'text' in content` (line 256) is false

CoreLines ==
    {Line("contentBlockDelta", t, <<>>, "none", <<>>) : t \in {<<>>, <<"a">>, <<Blk>>}}
    \cup {Line("contentBlockStart", <<>>, n, "none", <<>>) : n \in ToolNames}
    \cup {Bare(k) : k \in {"messageStart", "contentBlockStop", "messageStop",
                           "malformed", "badEvent"}}
    \cup {Line("current_tool_use", <<>>, n, "none", <<>>) : n \in ToolNames}
    \cup {Line("message", t, <<>>, "none", <<>>) : t \in {<<"a">>}}
    \cup {Line("message", <<>>, <<>>, "success", p) :
             p \in {<<Chunk("obj", JsonObj("list", <<Entry(Url(1), Absent, <<"A">>)>>))>>,
                    <<Chunk("obj", JsonObj("list", <<Entry(Url(1), Absent, <<"A">>),
                                                     Entry(Url(1), Absent, <<"A">>)>>))>>}}

ReducerLines ==
    {Bare(k) : k \in SkippedKinds \cup (UnexpectedKinds \ {"badToolResult"})}
    \cup {Line(k, t, <<>>, st, p) :
             k \in {"badToolResult", "nonObjectContent"},
             t \in {<<>>, <<Blk, "a">>}, st \in {"success", "error"},
             p \in {<<>>, <<Chunk("obj", JsonObj("list",
                                                 <<Entry(Url(1), Absent, <<"A">>)>>))>>}}
    \cup {Bare("zeroDeltaText")}
    \cup {Line("contentBlockDelta", <<"\n">>, <<>>, "none", <<>>)}
    \cup {Line("message", <<>>, <<>>, "success", p) : p \in Payloads}
    \cup {Line("message", <<"a">>, <<>>, "error",
               <<Chunk("obj", JsonObj("list", <<Entry(Url(1), Absent, <<"A">>)>>))>>)}

\* What invoke_runtime_cli returns: the CLI's stdout, or one of its error strings.
CliOk == {<<>>, <<"r">>}
CliErrors == {<<"Error: No agentcore config found">>, <<"Runtime error: ", "r">>,
              <<"Error: Runtime invocation timed out">>,
              <<"Error: agentcore CLI not found">>, <<"Error: ", "boom">>}
invoke_runtime_cli == CliOk \cup CliErrors

\* kwargs of one StreamingCallbackHandler call
\* (the agent of the "without search" column has no tools, app.py:571).
\* tool: Absent when there is no current_tool_use; <<"<no name>">> for a dict
\* without a "name" key; otherwise the name, <<>> being the empty name
Callbacks(s) ==
    [data : {Absent, <<"a">>, <<"b">>},
     tool : IF s = "without" THEN {Absent}
            ELSE {Absent, <<"<no name>">>, <<>>, <<"ns", "toolA">>}]
AgentResponses == {<<>>, <<"a">>, <<"r">>}
AgentErrors == {<<"boom">>}

\* ------------------------------------------------------------- source extraction
Min(a, b) == IF a < b THEN a ELSE b

\* seq[:n]
FirstN(seq, n) == SubSeq(seq, 1, Min(n, Len(seq)))

RECURSIVE Cut(_, _)
\* text[:n]; a block cut inside is the token of its first n characters
Cut(t, n) ==
    IF t = <<>> \/ n = 0 THEN <<>>
    ELSE IF CharLen(Head(t)) <= n THEN <<Head(t)>> \o Cut(Tail(t), n - CharLen(Head(t)))
    ELSE <<"#x" \o ToString(n)>>

\* text.find('{'): the place of the first chunk that starts with '{', 0 for
\* Python's -1
FindBrace(p) ==
    IF \E i \in DOMAIN p : p[i].t \in {"junk", "obj"}
    THEN CHOOSE i \in DOMAIN p :
            /\ p[i].t \in {"junk", "obj"}
            /\ \A j \in 1..(i - 1) : p[j].t \notin {"junk", "obj"}
    ELSE 0

\* json.loads(text) returns: text is one JSON value, then whitespace at most
JsonDecodes(rest) ==
    /\ rest # <<>>
    /\ rest[1].t = "obj"
    /\ \A i \in 2..Len(rest) : rest[i].t = "space"

\* url = result.get('url', result.get('source', ''))
EntryUrl(e) ==
    IF e.url # Absent THEN e.url ELSE IF e.source # Absent THEN e.source ELSE <<>>

\* title = result.get('title', url)[:60]
EntryTitle(e) == Cut(IF e.title # Absent THEN e.title ELSE EntryUrl(e), TitleMax)

RECURSIVE SourcesOf(_)
\* lines 264-269: the loop over the results, for entries that are objects
SourcesOf(entries) ==
    IF entries = <<>> THEN <<>>
    ELSE (IF EntryUrl(Head(entries)) # <<>>
          THEN <<[title |-> EntryTitle(Head(entries)), url |-> EntryUrl(Head(entries))]>>
          ELSE <<>>)
         \o SourcesOf(Tail(entries))

\* a loop over all the results
Visited_All(results) == results

\* the entries the loop of line 265 visits
Visited(results) == FirstN(results, MaxSources)

\* lines 257-273: the sources extracted from one embedded text; <<>> also
\* when anything raised inside the try (the bare except passes)
ExtractSources(p) ==
    LET json_start == FindBrace(p) IN
    IF json_start = 0 THEN <<>>
    ELSE LET rest == SubSeq(p, json_start, Len(p)) IN
         IF ~JsonDecodes(rest) THEN <<>>
         ELSE LET valyu_data == rest[1].val IN
              IF valyu_data.has # "list" THEN <<>>
              ELSE LET seen == Visited(valyu_data.results) IN
                   IF \E i \in DOMAIN seen : ~seen[i].dict THEN <<>>
                   ELSE SourcesOf(seen)

\* ------------------------------------------------------------- reducer
\* One iteration of `for line in stream_body.iter_lines()`: the new
\* full_response, the new tool_in_progress, the events put on the queue, and
\* whether the iteration raised an exception that its own handlers (lines
\* 272-277) do not catch.
Reduced(full, tool, out) == [full |-> full, tool |-> tool, out |-> out, raised |-> FALSE]
Raised(full, tool, out) == [full |-> full, tool |-> tool, out |-> out, raised |-> TRUE]

\* `continue`: lines 180-181 (empty line), 193-194 (not a dict) and 275-277
\* (json.loads raised JSONDecodeError)
Skip(full, tool) == Reduced(full, tool, <<>>)

\* a paragraph break after any text
ParagraphBreak_Always(full, tool) ==
    IF full # <<>>
    THEN Reduced(full \o <<"\n", "\n">>, tool, <<Ev("text", <<"\n", "\n">>)>>)
    ELSE Reduced(full, tool, <<>>)

\* lines 218-221 and 224-226
ParagraphBreak(full, tool) ==
    IF full # <<>> /\ ~EndsWithNewline(full)
    THEN Reduced(full \o <<"\n", "\n">>, tool, <<Ev("text", <<"\n", "\n">>)>>)
    ELSE Reduced(full, tool, <<>>)

\* a delta branch that clears the tool status silently
OnDelta_NoToolDone(full, tool, text) ==
    IF text # <<>> THEN Reduced(full \o text, FALSE, <<Ev("text", text)>>)
    ELSE Reduced(full, tool, <<>>)

\* lines 199-208
OnDelta(full, tool, text) ==
    IF text # <<>>
    THEN Reduced(full \o text, FALSE,
                 (IF tool THEN <<Ev("tool_done", <<>>)>> ELSE <<>>)
                    \o <<Ev("text", text)>>)
    ELSE Reduced(full, tool, <<>>)

\* lines 202-207 for a text that is a number other than 0: `if text:` is
\* true and the += of line 207 raises TypeError after the tool status was
\* cleared
OnBadDeltaText(full, tool) ==
    Raised(full, FALSE, IF tool THEN <<Ev("tool_done", <<>>)>> ELSE <<>>)

\* lines 209-221
OnBlockStart(full, tool, name) ==
    IF name # <<>>
    THEN Reduced(full, TRUE, <<Ev("tool", <<UsingTool>> \o CleanName(name))>>)
    ELSE ParagraphBreak(full, tool)

\* a messageStop branch that reports the end of a tool unconditionally
OnMessageStop_Always(full, tool) == Reduced(full, FALSE, <<Ev("tool_done", <<>>)>>)

\* lines 229-233
OnMessageStop(full, tool) ==
    IF tool THEN Reduced(full, FALSE, <<Ev("tool_done", <<>>)>>)
    ELSE Reduced(full, tool, <<>>)

\* lines 236-240
OnCurrentToolUse(full, tool, name) ==
    IF name # <<>>
    THEN Reduced(full, tool, <<Ev("tool", <<UsingTool>> \o CleanName(name))>>)
    ELSE Reduced(full, tool, <<>>)

\* lines 270-271: if sources: queue.put(("sources", sources))
SourcesEvents(sources) == IF sources # <<>> THEN <<Ev("sources", sources)>> ELSE <<>>

\* a message branch for which a tool result without sources is an error
OnMessage_Fatal(full, tool, line) ==
    IF line.status = "success" /\ ExtractSources(line.payload) = <<>>
    THEN Raised(full, tool, <<>>)
    ELSE Reduced(IF line.text # <<>> /\ full = <<>> THEN line.text ELSE full, tool,
                 IF line.status = "success"
                 THEN <<Ev("sources", ExtractSources(line.payload))>> ELSE <<>>)

\* lines 243-273: a message with a text block and/or a toolResult block
OnMessage(full, tool, line) ==
    Reduced(IF line.text # <<>> /\ full = <<>> THEN line.text ELSE full,
            tool,
            IF line.status = "success" THEN SourcesEvents(ExtractSources(line.payload))
            ELSE <<>>)

ReduceLine(full, tool, line) ==
    CASE line.k \in SkippedKinds -> Skip(full, tool)
      [] line.k = "contentBlockDelta" -> OnDelta(full, tool, line.text)
      [] line.k = "contentBlockStart" -> OnBlockStart(full, tool, line.name)
      [] line.k = "messageStart" -> ParagraphBreak(full, tool)
      [] line.k = "contentBlockStop" -> Reduced(full, tool, <<>>)
      [] line.k = "messageStop" -> OnMessageStop(full, tool)
      [] line.k = "current_tool_use" -> OnCurrentToolUse(full, tool, line.name)
      [] line.k = "message" -> OnMessage(full, tool, line)
      [] line.k = "badDeltaText" -> OnBadDeltaText(full, tool)
      [] line.k = "badToolResult" ->
            \* the text block and the content items before the bad one are
            \* handled first (lines 247-250, 256-271); line 256 then raises
            LET r == OnMessage(full, tool, line) IN
            IF line.status = "success" THEN Raised(r.full, r.tool, r.out) ELSE r
      [] line.k = "nonObjectContent" -> OnMessage(full, tool, line)
      [] line.k \in UnexpectedKinds \ {"badDeltaText", "badToolResult"} ->
            Raised(full, tool, <<>>)
      [] line.k = "zeroDeltaText" -> Reduced(full, tool, <<>>)
      [] OTHER -> Reduced(full, tool, <<>>)

\* ------------------------------------------------------------- state
VARIABLES
    view,           \* "chat" | "compare" | "gateway": the part of the program running
    kind,           \* kind[s]: "runtime" | "agent" | "replay" | "none", the thread's target
    ppc,            \* ppc[s]: where the producer thread of stream s is
    queue,          \* queue[s]: the Queue of stream s, a sequence of events
    sent,           \* history: every event ever put on queue[s]
    pend,           \* pend[s]: events the line or callback being handled has
                    \* yet to put, one queue.put call each
    pfull,          \* producer's full_response (meaningful once pbound[s])
    pbound,         \* whether the local full_response has been assigned
    ptool,          \* producer's tool_in_progress
    nread,          \* lines read / callbacks made so far
    line,           \* history: line[s], the line the reducer read last
    failedAt,       \* history: "none" | "client" | "invoke" | "stream" | "line"
    failLen,        \* history: len(full_response) when the transport failed
    escaped,        \* history: an exception left the thread's target function
    cliResult,      \* history: what the fallback call of invoke_runtime_cli returned
    cpc,            \* where the consumer (main) is
    response,       \* full_response / response_with / response_without
    tools_used,     \* consumer's tools_used
    sources_found,  \* consumer's sources_found
    terminal,       \* history: terminal[s], the terminal event the consumer dequeued
    final,          \* response_text / final_with / response_without as displayed
    phase,          \* 1: the run; 2: a second run fed the same event sequences
    script,         \* phase 2: the event sequence each producer replays
    saved,          \* phase 2: the final responses of the first run
    gop,            \* gateway operation: "setup" | "add" | "none"
    gpc,            \* where the gateway operation is
    save_config,    \* setup_valyu_gateway's save_config argument
    polls,          \* get_gateway_target calls made
    status,         \* status read by the last poll
    readyAt,        \* history: number of the first poll that returned READY, or 0
    failedPoll,     \* history: number of the poll that returned FAILED, or 0
    config_built,   \* a GatewayConfig has been built
    config_file,    \* the config file has been written
    returned,       \* what the operation returned: "none" | "config" | "READY"
    \* --- one call into the library (tools.py, gateway.py, runtime/agent.py)
    op,             \* the function or class used
    inp,            \* its arguments and environment
    lpc,            \* where the call is
    log,            \* history: the calls made to httpx, AWS, MCP and the agent
    exc,            \* the exception that reached the caller, or "none"
    payload,        \* the payload of the last deepsearch request
    mcp_client,     \* GatewayAgent._mcp_client / create_agent's mcp_client
    agent,          \* GatewayAgent._agent / create_agent's agent
    ncalls,         \* calls made by the user of the object so far
    \* --- a chat session in gateway mode (app.py main, chat view)
    query,          \* number of the query being answered, 0 before the first
    spc,            \* where the query is
    ctx_queue,      \* the query whose queue st.session_state.gateway_ctx's
                    \* callback handler holds, 0 without a gateway_ctx
    qput,           \* qput[q]: events put on the queue created for query q
    qgot,           \* qgot[q]: events the polling loop of query q has read
    produced,       \* produced[q]: events the agent produced answering query q
    scalls,         \* callbacks the agent made in this query
    sthread,        \* where the thread of this query is
    spend           \* events the callback being handled has yet to put

prodVars == <<kind, ppc, queue, sent, pend, pfull, pbound, ptool, nread, line, failedAt,
              failLen, escaped, cliResult>>
consVars == <<cpc, response, tools_used, sources_found, terminal, final>>
replayVars == <<phase, script, saved>>
gwVars == <<gop, gpc, save_config, polls, status, readyAt, failedPoll,
            config_built, config_file, returned>>
libVars == <<op, inp, lpc, log, exc, payload, mcp_client, agent, ncalls>>
sessVars == <<query, spc, ctx_queue, qput, qgot, produced, scalls, sthread, spend>>
extVars == <<libVars, sessVars>>
vars == <<view, prodVars, consVars, replayVars, gwVars, extVars>>

NoCli == <<"<not called>">>

\* a producer step leaves the consumer, the replay and the gateway alone
frameProd == UNCHANGED <<view, cpc, response, tools_used, sources_found, terminal,
                        final, phase, script, saved, gwVars, extVars>>

\* thread.is_alive()
IsAlive(s) == ppc[s] \notin {"idle", "dead"}

\* queue.put(e1) now; queue.put(e2), ... are the following steps of the thread
Put(s, evs) ==
    /\ queue' = [queue EXCEPT ![s] = @ \o FirstN(evs, 1)]
    /\ sent' = [sent EXCEPT ![s] = @ \o FirstN(evs, 1)]
    /\ pend' = [pend EXCEPT ![s] = IF evs = <<>> THEN <<>> ELSE Tail(evs)]

\* the next queue.put call of the line or callback being handled
\* (app.py:205 then 208; 536 then 542)
PutNext(s) ==
    /\ pend[s] # <<>>
    /\ queue' = [queue EXCEPT ![s] = Append(@, Head(pend[s]))]
    /\ sent' = [sent EXCEPT ![s] = Append(@, Head(pend[s]))]
    /\ pend' = [pend EXCEPT ![s] = Tail(@)]
    /\ UNCHANGED <<kind, ppc, pfull, pbound, ptool, nread, failedAt, failLen,
                   escaped, cliResult, line>>
    /\ frameProd

\* ------------------------------------------------------------- runtime producer
\* invoke_runtime_streaming, lines 145-151 and 281-282: no runtime config (or
\* no agent ARN), or boto3 cannot be imported: the CLI answers instead.
RtNoStreaming(s) ==
    /\ kind[s] = "runtime" /\ ppc[s] = "config" /\ pend[s] = <<>>
    /\ \E r \in invoke_runtime_cli :
          /\ Put(s, <<Ev("done", r)>>)
          /\ cliResult' = [cliResult EXCEPT ![s] = r]
    /\ ppc' = [ppc EXCEPT ![s] = "exit"]
    /\ UNCHANGED <<kind, pfull, pbound, ptool, nread, failedAt, failLen, escaped,
                   line>>
    /\ frameProd

\* lines 147-148: a config with an agent ARN was found
RtConfigFound(s) ==
    /\ kind[s] = "runtime" /\ ppc[s] = "config" /\ pend[s] = <<>>
    /\ ppc' = [ppc EXCEPT ![s] = "client"]
    /\ UNCHANGED <<kind, queue, sent, pend, pfull, pbound, ptool, nread, failedAt,
                   failLen, escaped, cliResult, line>>
    /\ frameProd

\* lines 283-290, `except Exception`: the handler reads full_response.  The name
\* is bound by line 172 only, so before that the read raises UnboundLocalError
\* out of the handler and out of the thread; nothing is put on the queue.
ExceptException(s, at) ==
    /\ failedAt' = [failedAt EXCEPT ![s] = at]
    /\ failLen' = [failLen EXCEPT ![s] = IF pbound[s] THEN TextLen(pfull[s]) ELSE 0]
    /\ IF ~pbound[s]
       THEN /\ escaped' = [escaped EXCEPT ![s] = TRUE]
            /\ ppc' = [ppc EXCEPT ![s] = "dead"]
            /\ UNCHANGED <<queue, sent, pend>>
       ELSE IF pfull[s] # <<>> /\ TextLen(pfull[s]) > PartialThreshold
       THEN /\ Put(s, <<Ev("done", pfull[s] \o IncompleteNote)>>)
            /\ ppc' = [ppc EXCEPT ![s] = "exit"]
            /\ UNCHANGED escaped
       ELSE /\ Put(s, <<Ev("tool", Reconnecting)>>)
            /\ ppc' = [ppc EXCEPT ![s] = "cli"]
            /\ UNCHANGED escaped
    /\ UNCHANGED <<kind, pfull, pbound, ptool, nread, cliResult, line>>
    /\ frameProd

\* line 159: boto3.client(...) returns
RtCreateClient(s) ==
    /\ kind[s] = "runtime" /\ ppc[s] = "client" /\ pend[s] = <<>>
    /\ ppc' = [ppc EXCEPT ![s] = "invoke"]
    /\ UNCHANGED <<kind, queue, sent, pend, pfull, pbound, ptool, nread, failedAt,
                   failLen, escaped, cliResult, line>>
    /\ frameProd

\* line 159: boto3.client(...) raises
RtCreateClientFails(s) ==
    /\ kind[s] = "runtime" /\ ppc[s] = "client" /\ pend[s] = <<>>
    /\ ExceptException(s, "client")

\* lines 162-174: invoke_agent_runtime returns; full_response = "",
\* tool_in_progress = False
RtInvoke(s) ==
    /\ kind[s] = "runtime" /\ ppc[s] = "invoke" /\ pend[s] = <<>>
    /\ pfull' = [pfull EXCEPT ![s] = <<>>]
    /\ pbound' = [pbound EXCEPT ![s] = TRUE]
    /\ ptool' = [ptool EXCEPT ![s] = FALSE]
    /\ ppc' = [ppc EXCEPT ![s] = "stream"]
    /\ UNCHANGED <<kind, queue, sent, pend, nread, failedAt, failLen, escaped, cliResult, line>>
    /\ frameProd

\* lines 162-167: invoke_agent_runtime raises
RtInvokeFails(s) ==
    /\ kind[s] = "runtime" /\ ppc[s] = "invoke" /\ pend[s] = <<>>
    /\ ExceptException(s, "invoke")

\* lines 179-277: one line of the stream is read and reduced
RtLine(s) ==
    /\ kind[s] = "runtime" /\ ppc[s] = "stream" /\ pend[s] = <<>>
    /\ nread[s] < (IF view = "compare" THEN MaxCompareEvents ELSE MaxLines)
    /\ \E ln \in CoreLines \cup (IF view = "reducer" THEN ReducerLines ELSE {}) :
          LET r == ReduceLine(pfull[s], ptool[s], ln) IN
          /\ line' = [line EXCEPT ![s] = ln]
          /\ pfull' = [pfull EXCEPT ![s] = r.full]
          /\ ptool' = [ptool EXCEPT ![s] = r.tool]
          /\ Put(s, r.out)
          /\ ppc' = [ppc EXCEPT ![s] = IF r.raised THEN "except" ELSE "stream"]
    /\ nread' = [nread EXCEPT ![s] = @ + 1]
    /\ UNCHANGED <<kind, pbound, failedAt, failLen, escaped, cliResult>>
    /\ frameProd

\* lines 283-290: the exception a line raised reaches `except Exception`
RtLineRaises(s) ==
    /\ kind[s] = "runtime" /\ ppc[s] = "except" /\ pend[s] = <<>>
    /\ ExceptException(s, "line")

\* line 179: reading the next line raises (the transport fails mid-stream)
RtStreamFails(s) ==
    /\ kind[s] = "runtime" /\ ppc[s] = "stream" /\ pend[s] = <<>>
    /\ ExceptException(s, "stream")

\* line 279: the stream ended (or there was no stream body)
RtStreamEnd(s) ==
    /\ kind[s] = "runtime" /\ ppc[s] = "stream" /\ pend[s] = <<>>
    /\ Put(s, <<Ev("done", pfull[s])>>)
    /\ ppc' = [ppc EXCEPT ![s] = "exit"]
    /\ UNCHANGED <<kind, pfull, pbound, ptool, nread, failedAt, failLen, escaped,
                   cliResult, line>>
    /\ frameProd

\* lines 291-293: the CLI fallback.  invoke_runtime_cli catches every Exception
\* of its own (lines 329-347) and returns an error string instead, so the
\* handler of lines 294-295 has nothing to catch.
RtCliFallback(s) ==
    /\ kind[s] = "runtime" /\ ppc[s] = "cli" /\ pend[s] = <<>>
    /\ \E r \in invoke_runtime_cli :
          /\ Put(s, <<Ev("done", r)>>)
          /\ cliResult' = [cliResult EXCEPT ![s] = r]
    /\ ppc' = [ppc EXCEPT ![s] = "exit"]
    /\ UNCHANGED <<kind, pfull, pbound, ptool, nread, failedAt, failLen, escaped,
                   line>>
    /\ frameProd

\* ------------------------------------------------------------- agent producer
\* StreamingCallbackHandler.__call__, app.py:530-542
CallbackEvents(kw) ==
    (IF kw.data # Absent THEN <<Ev("text", kw.data)>> ELSE <<>>)
    \o (IF kw.tool # Absent
        THEN <<Ev("tool", <<UsingTool>> \o
                          (IF kw.tool = <<"<no name>">> THEN <<"unknown">>
                           ELSE RawName(kw.tool)))>>
        ELSE <<>>)

\* the agent, running inside run_agent_with_streaming, calls its callback handler
AgCallback(s) ==
    /\ kind[s] = "agent" /\ ppc[s] = "run" /\ pend[s] = <<>>
    /\ nread[s] < (IF view = "compare" THEN MaxCompareEvents ELSE MaxCallbacks)
    /\ \E kw \in Callbacks(s) :
          /\ Put(s, CallbackEvents(kw))
          /\ pfull' = [pfull EXCEPT ![s] =
                          IF kw.data # Absent THEN @ \o kw.data ELSE @]
    /\ nread' = [nread EXCEPT ![s] = @ + 1]
    /\ UNCHANGED <<kind, ppc, pbound, ptool, failedAt, failLen, escaped, cliResult, line>>
    /\ frameProd

\* run_agent_with_streaming, lines 662-663: the agent returns
AgReturn(s) ==
    /\ kind[s] = "agent" /\ ppc[s] = "run" /\ pend[s] = <<>>
    /\ \E r \in AgentResponses : Put(s, <<Ev("done", r)>>)
    /\ ppc' = [ppc EXCEPT ![s] = "exit"]
    /\ UNCHANGED <<kind, pfull, pbound, ptool, nread, failedAt, failLen, escaped,
                   cliResult, line>>
    /\ frameProd

\* run_agent_with_streaming, lines 664-665: the agent raises
AgRaise(s) ==
    /\ kind[s] = "agent" /\ ppc[s] = "run" /\ pend[s] = <<>>
    /\ \E m \in AgentErrors : Put(s, <<Ev("error", m)>>)
    /\ ppc' = [ppc EXCEPT ![s] = "exit"]
    /\ UNCHANGED <<kind, pfull, pbound, ptool, nread, failedAt, failLen, escaped,
                   cliResult, line>>
    /\ frameProd

\* the thread's target function has returned: is_alive() is False from now on
ThreadExit(s) ==
    /\ ppc[s] = "exit" /\ pend[s] = <<>>
    /\ ppc' = [ppc EXCEPT ![s] = "dead"]
    /\ UNCHANGED <<kind, queue, sent, pend, pfull, pbound, ptool, nread, failedAt,
                   failLen, escaped, cliResult, line>>
    /\ frameProd

\* ------------------------------------------------------------- consumers
\* The consumer's locals for one stream after one queue item was handled.
Handled(resp, tools, srcs, term) ==
    [resp |-> resp, tools |-> tools, srcs |-> srcs, term |-> term]

InSeq(x, seq) == \E i \in DOMAIN seq : seq[i] = x

\* a consumer that records every tool event
TrackTool_NoDedupe(tools, data) == Append(tools, StripUsingTool(data))

\* tool_name = msg_data.replace(...); if tool_name not in tools_used: append
TrackTool(tools, data) ==
    LET tool_name == StripUsingTool(data) IN
    IF InSeq(tool_name, tools) THEN tools ELSE Append(tools, tool_name)

\* main(), chat view, lines 1155-1178: the body of the polling loop's try
ChatHandle(ev, resp, tools, srcs) ==
    CASE ev.type = "text" -> Handled(resp \o ev.data, tools, srcs, "none")
      [] ev.type = "tool" -> Handled(resp, TrackTool(tools, ev.data), srcs, "none")
      [] ev.type = "sources" -> Handled(resp, tools, srcs \o ev.data, "none")
      [] ev.type = "done" ->
            Handled(IF resp = <<>> THEN ev.data ELSE resp, tools, srcs, "done")
      [] ev.type = "error" -> Handled(ErrorPrefix \o ev.data, tools, srcs, "error")
      [] OTHER -> Handled(resp, tools, srcs, "none")

\* main(), compare view, lines 1005-1028: the "with search" queue in the poll loop
PollWithHandle(ev, resp, tools, srcs) ==
    CASE ev.type = "text" -> Handled(resp \o ev.data, tools, srcs, "none")
      [] ev.type = "tool" -> Handled(resp, TrackTool(tools, ev.data), srcs, "none")
      [] ev.type = "sources" -> Handled(resp, tools, srcs \o ev.data, "none")
      [] ev.type = "done" ->
            Handled(IF resp = <<>> THEN ev.data ELSE resp, tools, srcs, "done")
      [] ev.type = "error" -> Handled(ErrorPrefix \o ev.data, tools, srcs, "error")
      [] OTHER -> Handled(resp, tools, srcs, "none")

\* lines 1034-1041: the "without search" queue in the poll loop
PollWithoutHandle(ev, resp, tools, srcs) ==
    CASE ev.type = "text" -> Handled(resp \o ev.data, tools, srcs, "none")
      [] ev.type = "done" -> Handled(ev.data, tools, srcs, "done")
      [] ev.type = "error" -> Handled(ErrorPrefix \o ev.data, tools, srcs, "error")
      [] OTHER -> Handled(resp, tools, srcs, "none")

\* lines 1051-1061: the "with search" queue in the drain loop
DrainWithHandle(ev, resp, tools, srcs) ==
    CASE ev.type = "text" -> Handled(resp \o ev.data, tools, srcs, "none")
      [] ev.type = "tool" -> Handled(resp, TrackTool(tools, ev.data), srcs, "none")
      [] ev.type = "sources" -> Handled(resp, tools, srcs \o ev.data, "none")
      [] ev.type = "done" ->
            Handled(IF resp = <<>> THEN ev.data ELSE resp, tools, srcs, "done")
      [] ev.type = "error" -> Handled(resp, tools, srcs, "error")
      [] OTHER -> Handled(resp, tools, srcs, "none")

\* lines 1067-1071: the "without search" queue in the drain loop
DrainWithoutHandle(ev, resp, tools, srcs) ==
    CASE ev.type = "text" -> Handled(resp \o ev.data, tools, srcs, "none")
      [] ev.type = "done" ->
            Handled(IF resp = <<>> THEN ev.data ELSE resp, tools, srcs, "done")
      [] ev.type = "error" -> Handled(resp, tools, srcs, "error")
      [] OTHER -> Handled(resp, tools, srcs, "none")

\* The consumer takes the head of queue[s] and ends up with locals h.
Take(s, h) ==
    /\ queue' = [queue EXCEPT ![s] = Tail(@)]
    /\ response' = [response EXCEPT ![s] = h.resp]
    /\ tools_used' = h.tools
    /\ sources_found' = h.srcs
    /\ terminal' = [terminal EXCEPT ![s] = IF h.term = "none" THEN @ ELSE h.term]

\* final response with footer, lines 1079-1081 and 1186-1188
WithFooter(resp, tools) ==
    IF tools # <<>> THEN resp \o ToolsFooter \o JoinNames(tools) ELSE resp

\* the consumer changes the queue and nothing else of the producers' state
frameCons == UNCHANGED <<view, kind, ppc, sent, pend, pfull, pbound, ptool, nread,
                         failedAt, failLen, escaped, cliResult, line, replayVars,
                         gwVars, extVars>>

\* chat view, line 1155: stream_queue.get(timeout=0.1) returns an item
ChatGet ==
    /\ view = "chat" /\ cpc = "get"
    /\ queue["with"] # <<>>
    /\ LET h == ChatHandle(Head(queue["with"]), response["with"], tools_used,
                           sources_found) IN
       /\ Take("with", h)
       /\ cpc' = IF h.term = "none" THEN "get" ELSE "join"
    /\ UNCHANGED final
    /\ frameCons

\* line 1155 and 1179: the get times out on an empty queue and raises Empty
ChatEmpty ==
    /\ view = "chat" /\ cpc = "get"
    /\ queue["with"] = <<>>
    /\ cpc' = "is_alive"
    /\ UNCHANGED <<queue, response, tools_used, sources_found, terminal, final>>
    /\ frameCons

\* lines 1180-1181: if not thread.is_alive(): break
ChatCheckAlive ==
    /\ view = "chat" /\ cpc = "is_alive"
    /\ cpc' = IF IsAlive("with") THEN "get" ELSE "join"
    /\ UNCHANGED <<queue, response, tools_used, sources_found, terminal, final>>
    /\ frameCons

\* lines 1183-1210: the final response is built, shown and stored
ChatFinish ==
    /\ view = "chat" /\ cpc = "join"
    /\ final' = [final EXCEPT !["with"] = WithFooter(response["with"], tools_used)]
    /\ cpc' = "finished"
    /\ UNCHANGED <<queue, response, tools_used, sources_found, terminal>>
    /\ frameCons

\* compare view, line 1002: while thread_with.is_alive() or thread_without.is_alive()
CmpLoop ==
    /\ view = "compare" /\ cpc = "loop"
    /\ cpc' = IF IsAlive("with") \/ IsAlive("without") THEN "poll_with"
              ELSE "drain_with"
    /\ UNCHANGED <<queue, response, tools_used, sources_found, terminal, final>>
    /\ frameCons

\* lines 1004-1030: queue_with.get_nowait() and its handling, or Empty
CmpPollWith ==
    /\ view = "compare" /\ cpc = "poll_with"
    /\ IF queue["with"] # <<>>
       THEN Take("with", PollWithHandle(Head(queue["with"]), response["with"],
                                        tools_used, sources_found))
       ELSE UNCHANGED <<queue, response, tools_used, sources_found, terminal>>
    /\ cpc' = "poll_without"
    /\ UNCHANGED final
    /\ frameCons

\* lines 1033-1046: queue_without.get_nowait() and its handling, or Empty
CmpPollWithout ==
    /\ view = "compare" /\ cpc = "poll_without"
    /\ IF queue["without"] # <<>>
       THEN Take("without", PollWithoutHandle(Head(queue["without"]),
                                response["without"], tools_used, sources_found))
       ELSE UNCHANGED <<queue, response, tools_used, sources_found, terminal>>
    /\ cpc' = "loop"
    /\ UNCHANGED final
    /\ frameCons

\* lines 1049-1063: one iteration of the drain loop of queue_with
CmpDrainWith ==
    /\ view = "compare" /\ cpc = "drain_with"
    /\ IF queue["with"] # <<>>
       THEN /\ Take("with", DrainWithHandle(Head(queue["with"]), response["with"],
                                            tools_used, sources_found))
            /\ cpc' = "drain_with"
       ELSE /\ UNCHANGED <<queue, response, tools_used, sources_found, terminal>>
            /\ cpc' = "drain_without"
    /\ UNCHANGED final
    /\ frameCons

\* lines 1065-1073: one iteration of the drain loop of queue_without
CmpDrainWithout ==
    /\ view = "compare" /\ cpc = "drain_without"
    /\ IF queue["without"] # <<>>
       THEN /\ Take("without", DrainWithoutHandle(Head(queue["without"]),
                                response["without"], tools_used, sources_found))
            /\ cpc' = "drain_without"
       ELSE /\ UNCHANGED <<queue, response, tools_used, sources_found, terminal>>
            /\ cpc' = "join"
    /\ UNCHANGED final
    /\ frameCons

\* lines 1075-1105: the final responses are built, shown and stored
CmpFinish ==
    /\ view = "compare" /\ cpc = "join"
    /\ final' = [final EXCEPT !["with"] = WithFooter(response["with"], tools_used),
                              !["without"] = response["without"]]
    /\ cpc' = "finished"
    /\ UNCHANGED <<queue, response, tools_used, sources_found, terminal>>
    /\ frameCons

\* ------------------------------------------------------------- second run
\* A second compare query whose two producers put the same event sequences
\* as in the first one, with any timing; main() runs the same loops on them.
Restart ==
    /\ view = "compare" /\ cpc = "finished" /\ phase = 1
    /\ phase' = 2
    /\ script' = sent
    /\ saved' = final
    /\ kind' = [s \in Streams |-> "replay"]
    /\ ppc' = [s \in Streams |-> "replay"]
    /\ queue' = [s \in Streams |-> <<>>]
    /\ sent' = [s \in Streams |-> <<>>]
    /\ pend' = [s \in Streams |-> <<>>]
    /\ pfull' = [s \in Streams |-> <<>>]
    /\ pbound' = [s \in Streams |-> FALSE]
    /\ ptool' = [s \in Streams |-> FALSE]
    /\ nread' = [s \in Streams |-> 0]
    /\ cpc' = "loop"
    /\ response' = [s \in Streams |-> <<>>]
    /\ tools_used' = <<>>
    /\ sources_found' = <<>>
    /\ terminal' = [s \in Streams |-> "none"]
    /\ final' = [s \in Streams |-> <<>>]
    /\ failedAt' = [s \in Streams |-> "none"]
    /\ failLen' = [s \in Streams |-> 0]
    /\ escaped' = [s \in Streams |-> FALSE]
    /\ cliResult' = [s \in Streams |-> NoCli]
    /\ line' = [s \in Streams |-> NoLine]
    /\ UNCHANGED <<view, gwVars, extVars>>

\* the producer puts the next event of its sequence
ReplayPut(s) ==
    /\ kind[s] = "replay" /\ ppc[s] = "replay" /\ pend[s] = <<>>
    /\ Len(sent[s]) < Len(script[s])
    /\ Put(s, <<script[s][Len(sent[s]) + 1]>>)
    /\ UNCHANGED <<kind, ppc, pfull, pbound, ptool, nread, failedAt, failLen,
                   escaped, cliResult, line>>
    /\ frameProd

\* the producer has put its whole sequence and returns
ReplayEnd(s) ==
    /\ kind[s] = "replay" /\ ppc[s] = "replay" /\ pend[s] = <<>>
    /\ Len(sent[s]) = Len(script[s])
    /\ ppc' = [ppc EXCEPT ![s] = "exit"]
    /\ UNCHANGED <<kind, queue, sent, pend, pfull, pbound, ptool, nread, failedAt,
                   failLen, escaped, cliResult, line>>
    /\ frameProd

\* ------------------------------------------------------------- gateway

\* AfterPoll with the FAILED branch lost: FAILED is one more pending status.
AfterPoll_FailedPending(st, n) ==
    IF st = "READY" THEN "after_loop"
    ELSE IF n < MaxPolls THEN "poll"
    ELSE "after_loop"

\* AfterPoll with the break on READY lost: the loop polls on until the cap.
AfterPoll_NoBreak(st, n) ==
    IF st = "FAILED" THEN "raised"
    ELSE IF n < MaxPolls THEN "poll"
    ELSE "after_loop"

\* gateway.py:181-193 and 349-363: the body of `for _ in range(12)` after the
\* n-th get_gateway_target call returned status st: where control goes next.
AfterPoll(st, n) ==
    IF st = "READY" THEN "after_loop"
    ELSE IF st = "FAILED" THEN "raised"
    ELSE IF n < MaxPolls THEN "poll"
    ELSE "after_loop"

\* one time.sleep(10) and get_gateway_target call of the loop
GwPoll ==
    /\ view = "gateway" /\ gpc = "poll"
    \* status = target_status.get("status", "UNKNOWN")
    /\ \E st \in {"UNKNOWN", "CREATING", "READY", "FAILED"} :
          /\ status' = st
          /\ polls' = polls + 1
          /\ gpc' = AfterPoll(st, polls + 1)
          /\ readyAt' = IF st = "READY" /\ readyAt = 0 THEN polls + 1 ELSE readyAt
          /\ failedPoll' = IF st = "FAILED" /\ failedPoll = 0 THEN polls + 1
                           ELSE failedPoll
    /\ UNCHANGED <<gop, save_config, config_built, config_file, returned>>
    /\ UNCHANGED <<view, prodVars, consVars, replayVars, extVars>>

\* get_gateway_target itself raises (a boto3 error)
GwPollRaises ==
    /\ view = "gateway" /\ gpc = "poll"
    /\ polls' = polls + 1
    /\ gpc' = "raised"
    /\ UNCHANGED <<gop, save_config, status, readyAt, failedPoll, config_built,
                   config_file, returned>>
    /\ UNCHANGED <<view, prodVars, consVars, replayVars, extVars>>

\* setup_valyu_gateway, lines 195-207: the GatewayConfig is built
GwBuildConfig ==
    /\ view = "gateway" /\ gop = "setup" /\ gpc = "after_loop"
    /\ config_built' = TRUE
    /\ gpc' = IF save_config THEN "save" ELSE "return"
    /\ UNCHANGED <<gop, save_config, polls, status, readyAt, failedPoll,
                   config_file, returned>>
    /\ UNCHANGED <<view, prodVars, consVars, replayVars, extVars>>

\* lines 209-210: config.save(config_path)
GwSaveConfig ==
    /\ view = "gateway" /\ gop = "setup" /\ gpc = "save"
    /\ config_file' = TRUE
    /\ gpc' = "return"
    /\ UNCHANGED <<gop, save_config, polls, status, readyAt, failedPoll,
                   config_built, returned>>
    /\ UNCHANGED <<view, prodVars, consVars, replayVars, extVars>>

\* line 216: return config
GwReturnConfig ==
    /\ view = "gateway" /\ gop = "setup" /\ gpc = "return"
    /\ returned' = "config"
    /\ gpc' = "returned"
    /\ UNCHANGED <<gop, save_config, polls, status, readyAt, failedPoll,
                   config_built, config_file>>
    /\ UNCHANGED <<view, prodVars, consVars, replayVars, extVars>>

\* add_valyu_target, lines 365-372: return {..., "status": "READY"}
GwReturnResult ==
    /\ view = "gateway" /\ gop = "add" /\ gpc = "after_loop"
    /\ returned' = "READY"
    /\ gpc' = "returned"
    /\ UNCHANGED <<gop, save_config, polls, status, readyAt, failedPoll,
                   config_built, config_file>>
    /\ UNCHANGED <<view, prodVars, consVars, replayVars, extVars>>

\* ------------------------------------------------------------- specifications
NoProducers ==
    /\ queue = [s \in Streams |-> <<>>]
    /\ sent = [s \in Streams |-> <<>>]
    /\ pend = [s \in Streams |-> <<>>]
    /\ pfull = [s \in Streams |-> <<>>]
    /\ pbound = [s \in Streams |-> FALSE]
    /\ ptool = [s \in Streams |-> FALSE]
    /\ nread = [s \in Streams |-> 0]
    /\ failedAt = [s \in Streams |-> "none"]
    /\ failLen = [s \in Streams |-> 0]
    /\ escaped = [s \in Streams |-> FALSE]
    /\ cliResult = [s \in Streams |-> NoCli]
    /\ line = [s \in Streams |-> NoLine]

NoConsumer ==
    /\ response = [s \in Streams |-> <<>>]
    /\ tools_used = <<>>
    /\ sources_found = <<>>
    /\ terminal = [s \in Streams |-> "none"]
    /\ final = [s \in Streams |-> <<>>]
    /\ phase = 1
    /\ script = [s \in Streams |-> <<>>]
    /\ saved = [s \in Streams |-> <<>>]

NoGateway ==
    /\ gop = "none" /\ gpc = "none" /\ save_config = FALSE
    /\ polls = 0 /\ status = "none" /\ readyAt = 0 /\ failedPoll = 0
    /\ config_built = FALSE /\ config_file = FALSE /\ returned = "none"

\* kwargs.get / a None argument / an unset environment variable
None == "<None>"

NoPayload == [none |-> TRUE]

NoLib ==
    /\ op = "none" /\ inp = [none |-> TRUE] /\ lpc = "none"
    /\ log = <<>> /\ exc = "none" /\ payload = NoPayload
    /\ mcp_client = None /\ agent = None /\ ncalls = 0

NoSession ==
    /\ query = 0 /\ spc = "none" /\ ctx_queue = 0
    /\ qput = <<>> /\ qgot = <<>> /\ produced = <<>> /\ scalls = 0
    /\ sthread = "none" /\ spend = <<>>

\* the thread's first step, by its target
Started(k) == IF k = "runtime" THEN "config" ELSE IF k = "agent" THEN "run" ELSE "idle"

\* chat view: one query; the thread runs run_runtime_query (runtime mode) or
\* run_agent_with_streaming (local and gateway modes), lines 1126-1152.
ChatInit ==
    /\ view = "chat"
    /\ \E k \in {"runtime", "agent"} :
          /\ kind = [s \in Streams |-> IF s = "with" THEN k ELSE "none"]
          /\ ppc = [s \in Streams |-> Started(kind[s])]
    /\ cpc = "get"
    /\ NoProducers /\ NoConsumer /\ NoGateway /\ NoLib /\ NoSession

\* compare view: thread_with as in the chat view, thread_without always a local
\* agent, lines 945-999.
CompareInit ==
    /\ view = "compare"
    /\ \E k \in {"runtime", "agent"} :
          /\ kind = [s \in Streams |-> IF s = "with" THEN k ELSE "agent"]
          /\ ppc = [s \in Streams |-> Started(kind[s])]
    /\ cpc = "loop"
    /\ NoProducers /\ NoConsumer /\ NoGateway /\ NoLib /\ NoSession

\* run_runtime_query alone, lines 298-305: the worker thread of a runtime
\* query with every line the reducer distinguishes; nothing reads the queue
ReducerInit ==
    /\ view = "reducer"
    /\ kind = [s \in Streams |-> IF s = "with" THEN "runtime" ELSE "none"]
    /\ ppc = [s \in Streams |-> Started(kind[s])]
    /\ cpc = "idle"
    /\ NoProducers /\ NoConsumer /\ NoGateway /\ NoLib /\ NoSession

\* setup_valyu_gateway or add_valyu_target, with the target just created
GatewayInit ==
    /\ view = "gateway"
    /\ gop \in {"setup", "add"}
    /\ save_config \in BOOLEAN
    /\ gpc = "poll"
    /\ polls = 0 /\ status = "none" /\ readyAt = 0 /\ failedPoll = 0
    /\ config_built = FALSE /\ config_file = FALSE /\ returned = "none"
    /\ kind = [s \in Streams |-> "none"]
    /\ ppc = [s \in Streams |-> "idle"]
    /\ cpc = "idle"
    /\ NoProducers /\ NoConsumer /\ NoLib /\ NoSession

Producer(s) ==
    \/ RtNoStreaming(s) \/ RtConfigFound(s)
    \/ RtCreateClient(s) \/ RtCreateClientFails(s)
    \/ RtInvoke(s) \/ RtInvokeFails(s)
    \/ RtLine(s) \/ RtLineRaises(s)
    \/ RtStreamFails(s) \/ RtStreamEnd(s) \/ RtCliFallback(s)
    \/ AgCallback(s) \/ AgReturn(s) \/ AgRaise(s)
    \/ PutNext(s) \/ ThreadExit(s)

ChatNext ==
    \/ Producer("with")
    \/ ChatGet \/ ChatEmpty \/ ChatCheckAlive \/ ChatFinish

\* the steps of a runtime thread
Runtime(s) ==
    \/ RtNoStreaming(s) \/ RtConfigFound(s)
    \/ RtCreateClient(s) \/ RtCreateClientFails(s)
    \/ RtInvoke(s) \/ RtInvokeFails(s)
    \/ RtLine(s) \/ RtLineRaises(s)
    \/ RtStreamFails(s) \/ RtStreamEnd(s) \/ RtCliFallback(s)
    \/ PutNext(s) \/ ThreadExit(s)

ReducerNext == Runtime("with")

CompareNext ==
    \/ \E s \in Streams : Producer(s)
    \/ CmpLoop \/ CmpPollWith \/ CmpPollWithout
    \/ CmpDrainWith \/ CmpDrainWithout \/ CmpFinish

ReplayNext ==
    \/ CompareNext
    \/ Restart
    \/ \E s \in Streams : ReplayPut(s) \/ ReplayEnd(s)

GatewayNext ==
    \/ GwPoll \/ GwPollRaises
    \/ GwBuildConfig \/ GwSaveConfig \/ GwReturnConfig \/ GwReturnResult

\* ------------------------------------------------------------- tools.py
\* tools.py:162-740, the tool factories
DomainFactories ==
    {"financeSearch", "paperSearch", "bioSearch", "patentSearch", "secSearch",
     "economicsSearch"}
Factories == {"webSearch"} \cup DomainFactories
\* the callables that need the Valyu API key (gateway.py:79 and :281 included)
KeyOps ==
    Factories \cup {"ValyuTools"} \cup {"setup_valyu_gateway", "add_valyu_target"}

\* a list argument that is None
NoList == <<None>>

\* a test that only None fails
Truthy_NotNone(x) == x # None

\* `if x:` for an optional string and for an optional list
Truthy(x) == x # None /\ x # ""
TruthyList(l) == l # NoList /\ l # <<>>

\* api_key or os.environ.get("VALYU_API_KEY")    (tools.py:150, gateway.py:121, :316)
ResolvedKey(api_key, env) == IF Truthy(api_key) THEN api_key ELSE env

\* default_sources of each domain factory
DefaultSources(f) ==
    CASE f = "financeSearch" ->
            <<"valyu/valyu-stocks", "valyu/valyu-sec-filings", "valyu/valyu-earnings-US",
              "valyu/valyu-balance-sheet-US", "valyu/valyu-income-statement-US",
              "valyu/valyu-cash-flow-US", "valyu/valyu-dividends-US",
              "valyu/valyu-insider-transactions-US", "valyu/valyu-market-movers-US",
              "valyu/valyu-crypto", "valyu/valyu-forex", "valyu/valyu-bls",
              "valyu/valyu-fred", "valyu/valyu-world-bank">>
      [] f = "paperSearch" ->
            <<"valyu/valyu-arxiv", "valyu/valyu-biorxiv", "valyu/valyu-medrxiv",
              "valyu/valyu-pubmed">>
      [] f = "bioSearch" ->
            <<"valyu/valyu-pubmed", "valyu/valyu-biorxiv", "valyu/valyu-medrxiv",
              "valyu/valyu-clinical-trials", "valyu/valyu-drug-labels">>
      [] f = "patentSearch" -> <<"valyu/valyu-patents">>
      [] f = "secSearch" -> <<"valyu/valyu-sec-filings">>
      [] f = "economicsSearch" ->
            <<"valyu/valyu-bls", "valyu/valyu-fred", "valyu/valyu-world-bank",
              "valyu/valyu-worldbank-indicators", "valyu/valyu-usaspending">>
      [] OTHER -> NoList


\* payload[k] = v, when cond
Field(cond, k, v) == IF cond THEN k :> v ELSE <<>>

\* a domain factory that passes the caller's list on as it is
DomainSources_NoDefault(f, included_sources) == included_sources

\* sources = included_sources or default_sources    (tools.py:314, 396, 479, 555, 631, 714)
DomainSources(f, included_sources) ==
    IF TruthyList(included_sources) THEN included_sources ELSE DefaultSources(f)

\* the part of the payload every _search builds alike
\* (tools.py:223-234, 326-338 and the same lines of the other factories)
BasePayload(f, a) ==
    ("query" :> "q") @@ ("search_type" :> IF f = "webSearch" THEN "all" ELSE "proprietary")
    @@ ("max_num_results" :> IF a.max_num_results # None THEN a.max_num_results
                             ELSE IF f = "economicsSearch" THEN "3" ELSE "5")
    @@ Field(a.max_price # None, "max_price", a.max_price)
    @@ Field(a.relevance_threshold # None, "relevance_threshold", a.relevance_threshold)
    @@ Field(Truthy(a.category), "category", a.category)

\* the payload of one _search call; call_included is the included_sources
\* argument of webSearch's _search (the other factories' _search has none)
SearchPayload(f, a, call_included) ==
    IF f = "webSearch"
    THEN BasePayload(f, a)
         @@ (IF TruthyList(call_included) THEN "included_sources" :> call_included
             ELSE Field(TruthyList(a.included_sources), "included_sources",
                        a.included_sources))
    ELSE BasePayload(f, a) @@ ("included_sources" :> DomainSources(f, a.included_sources))

\* one external call: what was called, and with what
Eff(what, arg) == [what |-> what, arg |-> arg]

\* what each callable creates once it has the key, in the order of the code
Plan(f) ==
    CASE f \in Factories -> <<"httpx.Client">>
      [] f = "ValyuTools" -> <<>>
      [] f = "setup_valyu_gateway" ->
            <<"GatewayClient", "boto3.client", "create_oauth_authorizer_with_cognito",
              "create_mcp_gateway", "fix_iam_permissions", "create_gateway_target">>
      [] f = "add_valyu_target" -> <<"boto3.client", "create_gateway_target">>
      [] OTHER -> <<>>

\* the factories a property or method of ValyuTools calls, in order
\* (tools.py:783-869)
MethodTools(m) ==
    CASE m \in {"all", "search_tools"} ->
            <<"webSearch", "financeSearch", "paperSearch", "bioSearch",
              "patentSearch", "secSearch", "economicsSearch">>
      [] m = "financial_tools" -> <<"financeSearch", "secSearch", "economicsSearch">>
      [] m = "research_tools" -> <<"paperSearch", "bioSearch", "patentSearch">>
      [] m = "web_search" -> <<"webSearch">>
      [] m = "finance_search" -> <<"financeSearch">>
      [] m = "paper_search" -> <<"paperSearch">>
      [] m = "bio_search" -> <<"bioSearch">>
      [] m = "patent_search" -> <<"patentSearch">>
      [] m = "sec_search" -> <<"secSearch">>
      [] m = "economics_search" -> <<"economicsSearch">>
      [] OTHER -> <<>>

\* the arguments a property of ValyuTools passes to its factory:
\* api_key=self.api_key, max_num_results=self.max_num_results (5 unless given
\* to __init__), max_price=self.max_price    (tools.py:773-838)
PropertyArgs(a) ==
    [api_key |-> ResolvedKey(a.api_key, a.env), env |-> a.env,
     included_sources |-> NoList, max_price |-> a.max_price,
     relevance_threshold |-> None, category |-> None,
     max_num_results |-> IF a.max_num_results # None THEN a.max_num_results ELSE "5",
     method |-> None]

\* the included_sources arguments of a call
SourceArgs == {NoList, <<>>, <<"my/source">>}

\* _get_api_key (tools.py:148-155) and the key checks of gateway.py:121-126, :316-321
LibGetApiKey ==
    /\ op \in KeyOps /\ lpc = "start"
    /\ IF Truthy(ResolvedKey(inp.api_key, inp.env))
       THEN lpc' = "keyed" /\ exc' = exc
       ELSE lpc' = "raised" /\ exc' = "ValueError"
    /\ UNCHANGED <<op, inp, log, payload, mcp_client, agent, ncalls>>
    /\ UNCHANGED <<view, prodVars, consVars, replayVars, gwVars, sessVars>>

\* the next client or AWS resource of the callable is created
LibCreate ==
    /\ op \in KeyOps /\ lpc = "keyed"
    /\ IF Len(log) < Len(Plan(op))
       THEN /\ log' = Append(log, Eff(Plan(op)[Len(log) + 1],
                                      ResolvedKey(inp.api_key, inp.env)))
            /\ lpc' = lpc
       ELSE /\ log' = log
            /\ lpc' = IF op \in Factories THEN "tool"
                      ELSE IF op = "ValyuTools" THEN "object" ELSE "done"
    /\ UNCHANGED <<op, inp, exc, payload, mcp_client, agent, ncalls>>
    /\ UNCHANGED <<view, prodVars, consVars, replayVars, gwVars, sessVars>>

\* a property or method of the ValyuTools object is used: each tool it returns
\* is made by its factory, which resolves the key again and creates a client
LibMethod ==
    /\ op = "ValyuTools" /\ lpc = "object"
    /\ log' = log \o [i \in 1..Len(MethodTools(inp.method)) |->
                         Eff("httpx.Client", ResolvedKey(PropertyArgs(inp).api_key,
                                                         inp.env))]
    /\ lpc' = "tool"
    /\ UNCHANGED <<op, inp, exc, payload, mcp_client, agent, ncalls>>
    /\ UNCHANGED <<view, prodVars, consVars, replayVars, gwVars, sessVars>>

\* the agent calls a tool: _search builds the payload and posts it
\* (ValyuClient.deepsearch, tools.py:116-120)
LibSearch ==
    /\ lpc = "tool" /\ ncalls < MaxSearches
    /\ \E f \in (IF op \in Factories THEN {op}
                  ELSE {MethodTools(inp.method)[i] : i \in DOMAIN MethodTools(inp.method)}) :
       \E call_included \in (IF f = "webSearch" THEN SourceArgs ELSE {NoList}) :
          /\ payload' = SearchPayload(f, (IF op \in Factories THEN inp
                                          ELSE PropertyArgs(inp)), call_included)
          /\ log' = Append(log, Eff("POST /deepsearch", f))
    /\ ncalls' = ncalls + 1
    /\ UNCHANGED <<op, inp, lpc, exc, mcp_client, agent>>
    /\ UNCHANGED <<view, prodVars, consVars, replayVars, gwVars, sessVars>>

ToolsInit ==
    /\ view = "tools"
    /\ op \in KeyOps
    /\ inp \in
          [api_key : {None, "", "val_key"}, env : {None, "", "val_key"},
           max_num_results : IF op = "ValyuTools" THEN {None, "7"} ELSE {None},
           method : IF op = "ValyuTools"
                    THEN {"all", "search_tools", "financial_tools",
                          "research_tools", "web_search", "finance_search",
                          "paper_search", "bio_search", "patent_search",
                          "sec_search", "economics_search"}
                    ELSE {None},
           included_sources : IF op \in Factories THEN SourceArgs ELSE {NoList},
           max_price : IF op \in Factories \cup {"ValyuTools"}
                       THEN {None, "0.0", "5.0"} ELSE {None},
           relevance_threshold : IF op \in Factories THEN {None, "0.5"} ELSE {None},
           category : IF op \in Factories THEN {None, "news"} ELSE {None}]
    /\ lpc = "start" /\ log = <<>> /\ exc = "none" /\ payload = NoPayload
    /\ mcp_client = None /\ agent = None /\ ncalls = 0
    /\ kind = [s \in Streams |-> "none"]
    /\ ppc = [s \in Streams |-> "idle"]
    /\ cpc = "idle"
    /\ NoProducers /\ NoConsumer /\ NoGateway /\ NoSession

ToolsNext == LibGetApiKey \/ LibCreate \/ LibMethod \/ LibSearch

\* ------------------------------------------------------------- cleanup_valyu_gateway
\* a call made by the user of an object: what, in which phase, with what outcome
Use(what, at, outcome) == [what |-> what, arg |-> outcome, at |-> at]

Outcomes == {"ok", "raises"}

\* a cleanup that gives up at the first deletion that fails
AfterDelete_Abort(outcome, next) == IF outcome = "ok" THEN next ELSE "done"

\* where cleanup goes after a deletion whose exception, if any, was caught
\* (gateway.py:250-256, 260-263, 268-272): on to the next deletion
AfterDelete(outcome, next) == next

\* gateway.py:230-246: the config is loaded and the two clients are created
CleanupOpen ==
    /\ op = "cleanup_valyu_gateway" /\ lpc = "start"
    /\ log' = <<Eff("GatewayClient", ResolvedKey(inp.region, inp.config_region)),
                Eff("boto3.client", ResolvedKey(inp.region, inp.config_region))>>
    /\ lpc' = "target"
    /\ UNCHANGED <<op, inp, exc, payload, mcp_client, agent, ncalls>>
    /\ UNCHANGED <<view, prodVars, consVars, replayVars, gwVars, sessVars>>

\* gateway.py:240: GatewayConfig.load raises (no config file)
CleanupLoadRaises ==
    /\ op = "cleanup_valyu_gateway" /\ lpc = "start"
    /\ lpc' = "raised" /\ exc' = "FileNotFoundError"
    /\ UNCHANGED <<op, inp, log, payload, mcp_client, agent, ncalls>>
    /\ UNCHANGED <<view, prodVars, consVars, replayVars, gwVars, sessVars>>

\* gateway.py:248-256
CleanupDeleteTarget ==
    /\ op = "cleanup_valyu_gateway" /\ lpc = "target"
    /\ \E o \in Outcomes :
          /\ log' = Append(log, Eff("delete_gateway_target", o))
          /\ lpc' = AfterDelete(o, "gateway")
    /\ UNCHANGED <<op, inp, exc, payload, mcp_client, agent, ncalls>>
    /\ UNCHANGED <<view, prodVars, consVars, replayVars, gwVars, sessVars>>

\* gateway.py:258-266
CleanupDeleteGateway ==
    /\ op = "cleanup_valyu_gateway" /\ lpc = "gateway"
    /\ \E o \in Outcomes :
          /\ log' = Append(log, Eff("delete_gateway", o))
          /\ lpc' = AfterDelete(o, IF Truthy(inp.cognito_user_pool_id)
                                   THEN "user_pool" ELSE "done")
    /\ UNCHANGED <<op, inp, exc, payload, mcp_client, agent, ncalls>>
    /\ UNCHANGED <<view, prodVars, consVars, replayVars, gwVars, sessVars>>

\* gateway.py:267-272; creating the cognito-idp client may raise as well
CleanupDeleteUserPool ==
    /\ op = "cleanup_valyu_gateway" /\ lpc = "user_pool"
    /\ \E o \in Outcomes \cup {"no client"} :
          /\ log' = IF o = "no client"
                    THEN Append(log, Eff("boto3.client", "raises"))
                    ELSE log \o <<Eff("boto3.client", "cognito-idp"),
                                  Eff("delete_user_pool", o)>>
          /\ lpc' = AfterDelete(o, "done")
    /\ UNCHANGED <<op, inp, exc, payload, mcp_client, agent, ncalls>>
    /\ UNCHANGED <<view, prodVars, consVars, replayVars, gwVars, sessVars>>

Cleanup ==
    \/ CleanupOpen \/ CleanupLoadRaises
    \/ CleanupDeleteTarget \/ CleanupDeleteGateway \/ CleanupDeleteUserPool

\* ------------------------------------------------------------- GatewayAgent
\* how far __enter__ (gateway.py:487-522) and create_agent (agent.py:94-134) get
EnterOutcomes == {"import raises", "open raises", "list raises", "agent raises", "ok"}

\* the MCP calls made up to that point
EnterLog(o) ==
    CASE o = "import raises" -> <<>>
      [] o = "open raises" -> <<Eff("mcp.__enter__", "raises")>>
      [] o = "list raises" -> <<Eff("mcp.__enter__", "ok"), Eff("list_tools_sync", "raises")>>
      [] o = "agent raises" ->
            <<Eff("mcp.__enter__", "ok"), Eff("list_tools_sync", "ok"), Eff("Agent", "raises")>>
      [] OTHER ->
            <<Eff("mcp.__enter__", "ok"), Eff("list_tools_sync", "ok"), Eff("Agent", "ok")>>

\* GatewayAgent.__enter__, gateway.py:487-522, called by the with statement
GaEnter ==
    /\ op = "GatewayAgent" /\ lpc = "new"
    /\ \E o \in EnterOutcomes :
          /\ log' = log \o EnterLog(o)
          /\ mcp_client' = IF o = "import raises" THEN mcp_client ELSE "MCPClient"
          /\ agent' = IF o = "ok" THEN "Agent" ELSE agent
          /\ lpc' = IF o = "ok" THEN "inside" ELSE "enter raised"
          /\ exc' = IF o = "ok" THEN exc
                    ELSE IF o = "import raises" THEN "ImportError" ELSE "Exception"
    /\ UNCHANGED <<op, inp, payload, ncalls>>
    /\ UNCHANGED <<view, prodVars, consVars, replayVars, gwVars, sessVars>>

\* the with block ends, by return or by an exception, and the with statement
\* calls GatewayAgent.__exit__, gateway.py:524-526
GaExit ==
    /\ op = "GatewayAgent" /\ lpc = "inside"
    /\ \E o \in Outcomes :
          exc' = IF o = "raises" THEN "Exception" ELSE exc
    /\ log' = IF mcp_client # None THEN Append(log, Eff("mcp.__exit__", "ok")) ELSE log
    /\ lpc' = "exited"
    /\ UNCHANGED <<op, inp, payload, mcp_client, agent, ncalls>>
    /\ UNCHANGED <<view, prodVars, consVars, replayVars, gwVars, sessVars>>

\* GatewayAgent.__call__, gateway.py:528-532
GaCall ==
    /\ op = "GatewayAgent" /\ ncalls < MaxUserCalls
    /\ lpc \in {"new", "inside", "enter raised", "exited"}
    /\ log' = Append(log, Use("__call__", lpc,
                              IF agent = None THEN "RuntimeError" ELSE "self._agent(prompt)"))
    /\ ncalls' = ncalls + 1
    /\ UNCHANGED <<op, inp, lpc, exc, payload, mcp_client, agent>>
    /\ UNCHANGED <<view, prodVars, consVars, replayVars, gwVars, sessVars>>

\* GatewayAgent.list_tools, gateway.py:534-538
GaListTools ==
    /\ op = "GatewayAgent" /\ ncalls < MaxUserCalls
    /\ lpc \in {"new", "inside", "enter raised", "exited"}
    /\ log' = Append(log, Use("list_tools", lpc,
                              IF mcp_client = None THEN "RuntimeError"
                              ELSE "self._mcp_client.list_tools_sync()"))
    /\ ncalls' = ncalls + 1
    /\ UNCHANGED <<op, inp, lpc, exc, payload, mcp_client, agent>>
    /\ UNCHANGED <<view, prodVars, consVars, replayVars, gwVars, sessVars>>

GatewayAgent == GaEnter \/ GaExit \/ GaCall \/ GaListTools

\* ------------------------------------------------------------- runtime/agent.py
Entrypoints == {"invoke", "stream"}

\* invoke and stream, agent.py:142 and :156: agent, mcp_client = create_agent();
\* "import raises" stands for any failure before the MCP client is opened
\* (the imports, get_gateway_config, get_access_token)
EpCreateAgent ==
    /\ op \in Entrypoints /\ lpc = "start"
    /\ \E o \in EnterOutcomes :
          /\ log' = log \o EnterLog(o)
          /\ mcp_client' = IF o = "ok" THEN "MCPClient" ELSE mcp_client
          /\ agent' = IF o = "ok" THEN "Agent" ELSE agent
          /\ lpc' = IF o = "ok" THEN "try" ELSE "raised"
          /\ exc' = IF o = "ok" THEN exc ELSE "Exception"
    /\ UNCHANGED <<op, inp, payload, ncalls>>
    /\ UNCHANGED <<view, prodVars, consVars, replayVars, gwVars, sessVars>>

\* stream, agent.py:158-159: the agent yields one more event
EpYield ==
    /\ op = "stream" /\ lpc = "try" /\ ncalls < MaxUserCalls
    /\ log' = Append(log, Eff("yield", "event"))
    /\ ncalls' = ncalls + 1
    /\ UNCHANGED <<op, inp, lpc, exc, payload, mcp_client, agent>>
    /\ UNCHANGED <<view, prodVars, consVars, replayVars, gwVars, sessVars>>

\* agent.py:143-147 and :157-161: the agent call returns or raises, and the
\* finally clause closes the MCP client
EpFinish ==
    /\ op \in Entrypoints /\ lpc = "try"
    /\ \E o \in Outcomes :
          /\ exc' = IF o = "raises" THEN "Exception" ELSE exc
          /\ lpc' = IF o = "raises" THEN "raised" ELSE "done"
    /\ log' = Append(log, Eff("mcp.__exit__", "ok"))
    /\ UNCHANGED <<op, inp, payload, mcp_client, agent, ncalls>>
    /\ UNCHANGED <<view, prodVars, consVars, replayVars, gwVars, sessVars>>

Entrypoint == EpCreateAgent \/ EpYield \/ EpFinish

LifecycleInit ==
    /\ view = "lifecycle"
    /\ op \in {"cleanup_valyu_gateway", "GatewayAgent"} \cup Entrypoints
    /\ inp \in (IF op = "cleanup_valyu_gateway"
                THEN [region : {None, "us-west-2"}, config_region : {"us-east-1"},
                      cognito_user_pool_id : {None, "", "pool-1"}]
                ELSE {[none |-> TRUE]})
    /\ lpc = (IF op = "GatewayAgent" THEN "new" ELSE "start")
    /\ log = <<>> /\ exc = "none" /\ payload = NoPayload
    /\ mcp_client = None /\ agent = None /\ ncalls = 0
    /\ kind = [s \in Streams |-> "none"]
    /\ ppc = [s \in Streams |-> "idle"]
    /\ cpc = "idle"
    /\ NoProducers /\ NoConsumer /\ NoGateway /\ NoSession

LifecycleNext == Cleanup \/ GatewayAgent \/ Entrypoint

\* ------------------------------------------------------------- gateway chat session
IsTerminal(ev) == ev.type \in {"done", "error"}

\* thread.is_alive() for the thread of the query being answered
SessAlive == sthread \notin {"none", "dead"}

\* app.py:1116-1143, gateway mode: a prompt is entered; a queue and a callback
\* handler are made for it; the gateway agent is created with that handler
\* only if the session has no gateway_ctx; the thread is started
SessQuery ==
    /\ view = "session" /\ spc \in {"idle", "finished"}
    /\ query < MaxQueries
    /\ query' = query + 1
    /\ qput' = Append(qput, <<>>)
    /\ qgot' = Append(qgot, <<>>)
    /\ produced' = Append(produced, <<>>)
    /\ ctx_queue' = IF ctx_queue = 0 THEN query + 1 ELSE ctx_queue
    /\ scalls' = 0
    /\ spc' = "get"
    /\ sthread' = "run" /\ spend' = <<>>
    /\ UNCHANGED <<view, prodVars, consVars, replayVars, gwVars, libVars>>

\* the agent of gateway_ctx calls the callback handler it was created with:
\* StreamingCallbackHandler.__call__ puts on self.queue (app.py:526, 530-542),
\* one queue.put call at a time
SessCallback ==
    /\ view = "session" /\ sthread = "run" /\ spend = <<>>
    /\ scalls < MaxQueryCallbacks
    /\ \E kw \in Callbacks("with") :
          /\ qput' = [qput EXCEPT ![ctx_queue] = @ \o FirstN(CallbackEvents(kw), 1)]
          /\ produced' = [produced EXCEPT ![query] = @ \o FirstN(CallbackEvents(kw), 1)]
          /\ spend' = IF CallbackEvents(kw) = <<>> THEN <<>>
                      ELSE Tail(CallbackEvents(kw))
    /\ scalls' = scalls + 1
    /\ UNCHANGED <<query, spc, ctx_queue, qgot, sthread>>
    /\ UNCHANGED <<view, prodVars, consVars, replayVars, gwVars, libVars>>

\* the callback's second queue.put call (app.py:542 after 536)
SessPutNext ==
    /\ view = "session" /\ spend # <<>>
    /\ qput' = [qput EXCEPT ![ctx_queue] = Append(@, Head(spend))]
    /\ produced' = [produced EXCEPT ![query] = Append(@, Head(spend))]
    /\ spend' = Tail(spend)
    /\ UNCHANGED <<query, spc, ctx_queue, qgot, scalls, sthread>>
    /\ UNCHANGED <<view, prodVars, consVars, replayVars, gwVars, libVars>>

\* run_agent_with_streaming, app.py:661-663: the agent returns
SessReturn ==
    /\ view = "session" /\ sthread = "run" /\ spend = <<>>
    /\ \E r \in AgentResponses :
          qput' = [qput EXCEPT ![query] = Append(@, Ev("done", r))]
    /\ sthread' = "exit"
    /\ UNCHANGED <<query, spc, ctx_queue, qgot, produced, scalls, spend>>
    /\ UNCHANGED <<view, prodVars, consVars, replayVars, gwVars, libVars>>

\* run_agent_with_streaming, app.py:664-665: the agent raises
SessRaise ==
    /\ view = "session" /\ sthread = "run" /\ spend = <<>>
    /\ \E m \in AgentErrors :
          qput' = [qput EXCEPT ![query] = Append(@, Ev("error", m))]
    /\ sthread' = "exit"
    /\ UNCHANGED <<query, spc, ctx_queue, qgot, produced, scalls, spend>>
    /\ UNCHANGED <<view, prodVars, consVars, replayVars, gwVars, libVars>>

\* run_agent_with_streaming has returned: is_alive() is False from now on
SessThreadExit ==
    /\ view = "session" /\ sthread = "exit"
    /\ sthread' = "dead"
    /\ UNCHANGED <<query, spc, ctx_queue, qput, qgot, produced, scalls, spend>>
    /\ UNCHANGED <<view, prodVars, consVars, replayVars, gwVars, libVars>>

\* app.py:1153-1178: the polling loop reads the next item of this query's queue
SessGet ==
    /\ view = "session" /\ spc = "get"
    /\ Len(qgot[query]) < Len(qput[query])
    /\ LET ev == qput[query][Len(qgot[query]) + 1] IN
       /\ qgot' = [qgot EXCEPT ![query] = Append(@, ev)]
       /\ spc' = IF IsTerminal(ev) THEN "finished" ELSE "get"
    /\ UNCHANGED <<query, ctx_queue, qput, produced, scalls, sthread, spend>>
    /\ UNCHANGED <<view, prodVars, consVars, replayVars, gwVars, libVars>>

\* app.py:1155 and 1179: the get times out on an empty queue
SessEmpty ==
    /\ view = "session" /\ spc = "get"
    /\ Len(qgot[query]) = Len(qput[query])
    /\ spc' = "is_alive"
    /\ UNCHANGED <<query, ctx_queue, qput, qgot, produced, scalls, sthread, spend>>
    /\ UNCHANGED <<view, prodVars, consVars, replayVars, gwVars, libVars>>

\* app.py:1180-1181: if not thread.is_alive(): break
SessCheckAlive ==
    /\ view = "session" /\ spc = "is_alive"
    /\ spc' = IF SessAlive THEN "get" ELSE "finished"
    /\ UNCHANGED <<query, ctx_queue, qput, qgot, produced, scalls, sthread, spend>>
    /\ UNCHANGED <<view, prodVars, consVars, replayVars, gwVars, libVars>>

\* app.py:838-848 and 860-869: Clear Chat, or a change of mode or agent,
\* closes the gateway agent and deletes gateway_ctx
SessClear ==
    /\ view = "session" /\ spc \in {"idle", "finished"}
    /\ ctx_queue # 0
    /\ ctx_queue' = 0
    /\ UNCHANGED <<query, spc, qput, qgot, produced, scalls, sthread, spend>>
    /\ UNCHANGED <<view, prodVars, consVars, replayVars, gwVars, libVars>>

SessionInit ==
    /\ view = "session"
    /\ query = 0 /\ spc = "idle" /\ ctx_queue = 0
    /\ qput = <<>> /\ qgot = <<>> /\ produced = <<>> /\ scalls = 0
    /\ sthread = "none" /\ spend = <<>>
    /\ kind = [s \in Streams |-> "none"]
    /\ ppc = [s \in Streams |-> "idle"]
    /\ cpc = "idle"
    /\ NoProducers /\ NoConsumer /\ NoGateway /\ NoLib

SessionNext ==
    \/ SessQuery \/ SessCallback \/ SessPutNext \/ SessReturn \/ SessRaise
    \/ SessThreadExit
    \/ SessGet \/ SessEmpty \/ SessCheckAlive \/ SessClear

\* one chat query
ChatSpec == ChatInit /\ [][ChatNext]_vars
\* one compare query
CompareSpec == CompareInit /\ [][CompareNext]_vars
\* one compare query, then a second one fed the same event sequences
ReplaySpec == CompareInit /\ [][ReplayNext]_vars
\* one use of a tool factory, of ValyuTools or of a gateway operation
ToolsSpec == ToolsInit /\ [][ToolsNext]_vars
\* one cleanup, one GatewayAgent and its with block, or one runtime invocation
LifecycleSpec == LifecycleInit /\ [][LifecycleNext]_vars
\* the queries of one chat session in gateway mode
SessionSpec == SessionInit /\ [][SessionNext]_vars
\* the worker thread of one runtime query
ReducerSpec == ReducerInit /\ [][ReducerNext]_vars
\* one gateway operation; it is sequential code, so it keeps running
GatewaySpec == GatewayInit /\ [][GatewayNext]_vars /\ WF_vars(GatewayNext)

Init == ChatInit
Next == ChatNext
Spec == ChatSpec

\* ------------------------------------------------------------- properties
Last(seq) == seq[Len(seq)]
CountType(seq, type) == Cardinality({i \in DOMAIN seq : seq[i].type = type})
HasType(seq, type) == \E i \in DOMAIN seq : seq[i].type = type

RECURSIVE TextOf(_)
\* the concatenation of the text events of an event sequence
TextOf(seq) ==
    IF seq = <<>> THEN <<>>
    ELSE (IF Head(seq).type = "text" THEN Head(seq).data ELSE <<>>) \o TextOf(Tail(seq))

\* the string carried by the first event of the given type
Carried(seq, type) == seq[CHOOSE i \in DOMAIN seq : seq[i].type = type].data

\* C1: wherever the upstream runtime call fails, invoke_runtime_streaming lets
\* no exception out of the worker and finishes by putting exactly one "done"
\* event, as the last item of its queue.
C1_FailureEndsWithDone ==
    \A s \in Streams :
        (kind[s] = "runtime" /\ failedAt[s] # "none" /\ ppc[s] = "dead")
        => /\ ~escaped[s]
           /\ sent[s] # <<>>
           /\ Last(sent[s]).type = "done"
           /\ CountType(sent[s], "done") = 1

\* C2: the chat consumer has stopped polling without a terminal event only if
\* the producer thread has finished and no event is pending in the queue.
C2_NothingLeftUnconsumed ==
    (view = "chat" /\ cpc \in {"join", "finished"} /\ terminal["with"] = "none")
    => (~IsAlive("with") /\ queue["with"] = <<>>)

\* C3: when the transport failed after more than 100 characters of text, the
\* final answer of the query is the partial text followed by the note that the
\* response may be incomplete (here: even when the consumer did handle the
\* producer's done event, and leaving the tools footer aside).
C3_PartialAnswerCarriesNote ==
    (view = "chat" /\ cpc = "finished" /\ kind["with"] = "runtime"
        /\ failedAt["with"] = "stream" /\ failLen["with"] > PartialThreshold
        /\ terminal["with"] = "done")
    => response["with"] = pfull["with"] \o IncompleteNote

\* C4: when the transport failed with 100 or fewer characters accumulated, the
\* producer's terminal event carries the result of the non-streaming CLI path,
\* or the generic error string where that path failed.
C4_FallbackResultIsTerminal ==
    \A s \in Streams :
        (kind[s] = "runtime" /\ failedAt[s] # "none"
            /\ failLen[s] <= PartialThreshold /\ ppc[s] = "dead")
        => /\ sent[s] # <<>>
           /\ Last(sent[s]).type = "done"
           /\ cliResult[s] # NoCli
           /\ \/ Last(sent[s]).data = cliResult[s]
              \/ cliResult[s] \in CliErrors /\ Last(sent[s]).data = GenericError

\* C5: whenever a producer put an error event on a stream's queue, the final
\* answer of that stream is the error notification "Error: <message>".
C5_ErrorEventYieldsErrorAnswer ==
    cpc = "finished"
    => \A s \in Streams :
          HasType(sent[s], "error")
          => response[s] = ErrorPrefix \o Carried(sent[s], "error")

\* C6: in every consumer loop a handled done event leaves the accumulated text
\* as the final answer, and supplies the answer only when no text was
\* accumulated.
C6_DoneAdoptedOnlyWhenEmpty ==
    cpc = "finished"
    => \A s \in Streams :
          terminal[s] = "done"
          => response[s] = IF TextOf(sent[s]) # <<>> THEN TextOf(sent[s])
                           ELSE Carried(sent[s], "done")

\* C7: in compare mode each column's final response is a function of the event
\* sequence of its own queue: a second query whose producers put the same
\* sequences ends with the same two responses, whatever the interleaving and
\* the order in which the threads finish.
C7_ColumnsDependOnOwnEventsOnly ==
    (view = "compare" /\ phase = 2 /\ cpc = "finished")
    => (sent = script => final = saved)

\* C8: setup_valyu_gateway and add_valyu_target complete normally (a config or a
\* result returned, the config file written) only if a poll returned READY.
C8_CompletesOnlyWhenReady ==
    (returned # "none" \/ config_built \/ config_file) => readyAt # 0

\* C9: once a poll has returned FAILED the operation has raised: no further
\* poll is made, no GatewayConfig is built or saved, nothing is returned.
C9_FailedRaisesImmediately ==
    failedPoll # 0
    => /\ gpc = "raised"
       /\ polls = failedPoll
       /\ ~config_built /\ ~config_file
       /\ returned = "none"

\* a state where the third poll returned FAILED and the operation raised
C9_Witness ==
    view = "gateway" /\ failedPoll = 3 /\ status = "FAILED" /\ gpc = "raised"

\* C10: the status poll terminates: at most 12 get_gateway_target calls are
\* made, none after the first one that returned READY, and the operation ends
\* (returns or raises).
C10_PollTerminates ==
    /\ [](polls <= MaxPolls /\ (readyAt # 0 => polls = readyAt))
    /\ <>(gpc \in {"returned", "raised"})

\* a state where READY came with the last allowed poll and the operation ended
C10_Witness ==
    view = "gateway" /\ polls = MaxPolls /\ readyAt = MaxPolls /\ gpc = "returned"

\* the step in which runtime stream s reads a line
ReadsLine(s) == kind[s] = "runtime" /\ nread'[s] = nread[s] + 1

\* after a line was read: the events put so far and those the line has yet to put
Issued(s) == sent'[s] \o pend'[s]

\* lines that are empty, that fail decoding (as bytes or as JSON), or that
\* decode to a value that is no object
UndecodedKinds == SkippedKinds \cup {"badBytes", "badJson"}

\* C11: a line that is empty, fails decoding, or decodes to a value that is no
\* object changes neither full_response nor tool_in_progress, puts nothing on
\* the queue, and the loop goes on to the next line.
C11_SkippedLinesAreNoOps ==
    [][\A s \in Streams :
          (ReadsLine(s) /\ line'[s].k \in UndecodedKinds)
          => /\ pfull'[s] = pfull[s]
             /\ ptool'[s] = ptool[s]
             /\ Issued(s) = sent[s] /\ queue'[s] = queue[s]
             /\ ppc'[s] = "stream"]_vars

\* C12: no line, whatever its content, ends the reduction pass: the loop never
\* leaves for the exception handler because of a line it read.
C12_NoLineEndsThePass ==
    \A s \in Streams : ppc[s] # "except" /\ failedAt[s] # "line"

\* the embedded text `prefix {"results":[{"url":u1,"title":"A"}]} suffix`
PrefixObjSuffix ==
    <<Chunk("plain", NoVal),
      Chunk("obj", JsonObj("list", <<Entry(Url(1), Absent, <<"A">>)>>)),
      Chunk("plain", NoVal)>>

\* C13: a successful tool result whose text is a prefix without '{', a JSON
\* object with a results list, and trailing text yields the sources of that
\* object: here one "sources" event with the one source (title "A", url u1).
C13_TrailingTextStillYieldsSources ==
    \A s \in Streams :
        (line[s].k = "message" /\ line[s].status = "success"
            /\ line[s].payload = PrefixObjSuffix)
        => InSeq(Ev("sources", <<[title |-> <<"A">>, url |-> Url(1)]>>), sent[s])

\* no two elements of a list of sources have the same URL
NoDupUrl(srcs) ==
    \A i, j \in DOMAIN srcs : i # j => srcs[i].url # srcs[j].url

\* C14: the sources collected for a query hold no URL twice.
C14_SourcesUniqueByUrl == NoDupUrl(sources_found)

\* no element occurs twice in seq
NoDup(seq) == \A i, j \in DOMAIN seq : i # j => seq[i] # seq[j]

\* C15: tools_used never holds a name twice, and every contentBlockStart line
\* that carries a tool name puts its own "tool" event on the queue.
C15_ToolsUsedUniqueEventsKept ==
    /\ [](NoDup(tools_used))
    /\ [][\A s \in Streams :
             (ReadsLine(s) /\ line'[s].k = "contentBlockStart" /\ line'[s].name # <<>>)
             => /\ sent'[s] = Append(sent[s],
                                     Ev("tool", <<UsingTool>> \o CleanName(line'[s].name)))
                /\ queue'[s] = Append(queue[s], Last(sent'[s]))]_vars

\* toolA was started, text came, toolA was started again, and the consumer
\* has read all of it: two "tool" events were put, tools_used has one entry
C15_Witness ==
    /\ view = "chat" /\ kind["with"] = "runtime"
    /\ Len(sent["with"]) = 4 /\ queue["with"] = <<>>
    /\ sent["with"][1] = Ev("tool", <<UsingTool, "toolA">>)
    /\ sent["with"][2].type = "tool_done"
    /\ sent["with"][3] = Ev("text", <<"a">>)
    /\ sent["with"][4] = Ev("tool", <<UsingTool, "toolA">>)
    /\ tools_used = << <<"toolA">> >>

\* the "tool" events that announce a named tool (not the reconnect status, not
\* the handler's "unknown")
IsToolStart(ev) ==
    /\ ev.type = "tool" /\ ev.data # <<UsingTool, "unknown">>
    /\ ev.data # <<UsingTool>> /\ ev.data # Reconnecting

\* a text event that carries a delta (not a paragraph break)
IsTextDelta(ev) == ev.type = "text" /\ ev.data # <<"\n", "\n">>

\* C16: every event that announces a named tool carries the name without its
\* namespace, and the first text delta after it is preceded by a "tool_done".
C16_ToolStartNormalisedThenDone ==
    \A s \in Streams : \A i \in DOMAIN sent[s] :
        IsToolStart(sent[s][i])
        => /\ ~InSeq(Sep, sent[s][i].data)
           /\ \A j \in (i + 1)..Len(sent[s]) :
                 IsTextDelta(sent[s][j])
                 => \E k \in (i + 1)..(j - 1) : sent[s][k].type = "tool_done"

\* the names a tool-invocation-start event can give to the consumer
StartedNames ==
    {CleanName(n) : n \in ToolNames \ {<<>>}} \cup {RawName(n) : n \in ToolNames \ {<<>>}}
    \cup {<<"unknown">>, <<>>}

\* C17: tools_used holds names of started tools only, and the reconnect status
\* never shows in the final answer's footer.
C17_OnlyStartedToolsTracked ==
    /\ \A i \in DOMAIN tools_used : tools_used[i] \in StartedNames
    /\ \A s \in Streams : ~InSeq("Reconnecting...", final[s])

\* C18: a line with a non-empty text delta appends the text to full_response
\* and puts one "text" event carrying it; if a tool was in progress exactly one
\* "tool_done" is put before it and the flag is cleared, otherwise none is put.
C18_DeltaAppendsAfterToolDone ==
    [][\A s \in Streams :
          (ReadsLine(s) /\ line'[s].k = "contentBlockDelta" /\ line'[s].text # <<>>)
          => LET put == (IF ptool[s] THEN <<Ev("tool_done", <<>>)>> ELSE <<>>)
                            \o <<Ev("text", line'[s].text)>> IN
             /\ pfull'[s] = pfull[s] \o line'[s].text
             /\ ~ptool'[s]
             /\ Issued(s) = sent[s] \o put
             /\ queue'[s] \o pend'[s] = queue[s] \o put]_vars

\* text, a tool start, then a delta: the delta's text came after one tool_done
C18_Witness ==
    /\ view = "reducer" /\ nread["with"] = 3
    /\ line["with"].k = "contentBlockDelta"
    /\ sent["with"] = <<Ev("text", <<"a">>), Ev("tool", <<UsingTool, "toolA">>),
                        Ev("tool_done", <<>>), Ev("text", <<Blk>>)>>
    /\ pfull["with"] = <<"a", Blk>> /\ ~ptool["with"]

\* a messageStart line or a contentBlockStart line without a tool name
BreakLine(ln) ==
    ln.k = "messageStart" \/ (ln.k = "contentBlockStart" /\ ln.name = <<>>)

\* C19: such a line appends "\n\n" (and puts the matching "text" event) only
\* when full_response is non-empty and does not end in a newline, and changes
\* nothing otherwise; the second of two consecutive such lines adds nothing.
C19_ParagraphBreakIdempotent ==
    [][\A s \in Streams :
          (ReadsLine(s) /\ BreakLine(line'[s]))
          => /\ IF pfull[s] # <<>> /\ ~EndsWithNewline(pfull[s])
                THEN /\ pfull'[s] = pfull[s] \o <<"\n", "\n">>
                     /\ Issued(s) = Append(sent[s], Ev("text", <<"\n", "\n">>))
                ELSE /\ pfull'[s] = pfull[s]
                     /\ Issued(s) = sent[s]
             /\ ptool'[s] = ptool[s]
             /\ BreakLine(line[s]) => pfull'[s] = pfull[s] /\ Issued(s) = sent[s]]_vars

\* text, then two such lines in a row: one paragraph break was added
C19_Witness ==
    /\ view = "reducer" /\ nread["with"] = 3
    /\ BreakLine(line["with"])
    /\ pfull["with"] = <<"a", "\n", "\n">>
    /\ sent["with"] = <<Ev("text", <<"a">>), Ev("text", <<"\n", "\n">>)>>
    /\ ppc["with"] = "stream"

\* the sources of the first n of LongResults
LongSources(n) == [i \in 1..n |-> [title |-> <<"A">>, url |-> Url(i)]]

\* C20: one tool-result payload yields at most 10 sources, and a payload whose
\* results all carry a URL yields the sources of the first 10 of them, in order.
C20_AtMostTenSources ==
    [][\A s \in Streams :
          (ReadsLine(s) /\ line'[s].k = "message" /\ line'[s].status = "success")
          => /\ Len(Issued(s)) <= Len(sent[s]) + 1
             /\ Len(Issued(s)) = Len(sent[s]) + 1
                => /\ Last(Issued(s)).type = "sources"
                   /\ Len(Last(Issued(s)).data) <= MaxSources
             /\ \A n \in 1..MaxResults :
                   line'[s].payload = <<Chunk("obj", JsonObj("list", LongResults(n)))>>
                   => Issued(s) = Append(sent[s],
                                        Ev("sources", LongSources(Min(n, MaxSources))))]_vars

\* a payload of 11 results with URLs was read: the event holds the first 10
C20_Witness ==
    /\ view = "reducer"
    /\ line["with"].payload
          = <<Chunk("obj", JsonObj("list", LongResults(MaxSources + 1)))>>
    /\ Len(sent["with"]) = 1
    /\ sent["with"][1] = Ev("sources", LongSources(MaxSources))

\* the url the entry gives: its url when that is usable, else its source
UsableUrl(e) ==
    IF e.url # Absent /\ e.url # <<>> THEN e.url
    ELSE IF e.source # Absent THEN e.source ELSE <<>>

RECURSIVE SourcesWithFallback(_)
\* one source per entry that gives a url, titled by its title or that url
SourcesWithFallback(entries) ==
    IF entries = <<>> THEN <<>>
    ELSE (IF UsableUrl(Head(entries)) # <<>>
          THEN <<[title |-> Cut(IF Head(entries).title # Absent
                                THEN Head(entries).title
                                ELSE UsableUrl(Head(entries)), TitleMax),
                  url |-> UsableUrl(Head(entries))]>>
          ELSE <<>>)
         \o SourcesWithFallback(Tail(entries))

\* the results of a payload that is one JSON object with a list of objects
IsEntryList(p) ==
    /\ Len(p) = 1 /\ p[1].t = "obj" /\ p[1].val.has = "list"
    /\ \A i \in DOMAIN p[1].val.results : p[1].val.results[i].dict

\* C21: every emitted source has a non-empty url and a title of at most 60
\* characters, and the sources of a list of entries are those of the entries
\* that give a url (their url, or their source when the url is not usable),
\* entries that give none being skipped.
C21_SourcesHaveUrlAndShortTitle ==
    \A s \in Streams :
        /\ \A i \in DOMAIN sent[s] :
              sent[s][i].type = "sources"
              => \A j \in DOMAIN sent[s][i].data :
                    /\ sent[s][i].data[j].url # <<>>
                    /\ TextLen(sent[s][i].data[j].title) <= TitleMax
        /\ (line[s].k = "message" /\ line[s].status = "success"
               /\ IsEntryList(line[s].payload))
           => LET want == SourcesWithFallback(Visited(line[s].payload[1].val.results)) IN
              want # <<>> => InSeq(Ev("sources", want), sent[s])

\* the embedded text has no '{', or what starts at its first '{' does not
\* decode, or it decodes to an object without "results"
NothingToExtract(p) ==
    \/ \A i \in DOMAIN p : p[i].t \in {"plain", "space"}
    \/ \E i \in DOMAIN p :
          /\ p[i].t \in {"junk", "obj"}
          /\ \A j \in 1..(i - 1) : p[j].t \in {"plain", "space"}
          /\ \/ p[i].t = "junk"
             \/ \E j \in (i + 1)..Len(p) : p[j].t # "space"
             \/ p[i].val.has = "absent"

\* C22: a successful tool result whose text has no '{', does not decode or has
\* no results field puts nothing on the queue, raises nothing, leaves
\* full_response and tool_in_progress as they were, and the loop goes on.
C22_ExtractionSilentAndNonFatal ==
    [][\A s \in Streams :
          (ReadsLine(s) /\ line'[s].k = "message" /\ line'[s].status = "success"
              /\ line'[s].text = <<>> /\ NothingToExtract(line'[s].payload))
          => /\ Issued(s) = sent[s] /\ queue'[s] = queue[s]
             /\ pfull'[s] = pfull[s] /\ ptool'[s] = ptool[s]
             /\ ppc'[s] = "stream" /\ failedAt'[s] = "none"]_vars

\* text, a tool start, then a tool result whose text starts with '{' and does
\* not decode: nothing was put for it and the loop is still reading
C22_Witness ==
    /\ view = "reducer" /\ nread["with"] = 3
    /\ line["with"].k = "message" /\ line["with"].status = "success"
    /\ line["with"].payload = <<Chunk("junk", NoVal)>>
    /\ sent["with"] = <<Ev("text", <<"a">>), Ev("tool", <<UsingTool, "toolA">>)>>
    /\ pfull["with"] = <<"a">> /\ ptool["with"]
    /\ ppc["with"] = "stream"

\* C26: on a runtime run without a failure, the text the consumer holds once
\* it has consumed the done event is the producer's full_response, the string
\* that done event carries.
C26_ConsumerTextEqualsProducerText ==
    (view = "chat" /\ kind["with"] = "runtime" /\ terminal["with"] = "done"
        /\ failedAt["with"] = "none" /\ ~escaped["with"]
        /\ cliResult["with"] = NoCli)
    => response["with"] = Carried(sent["with"], "done")

\* C27: in the runtime reducer a "tool_done" is put only while a tool is in
\* progress (so never before a "tool" event, never twice without one in
\* between), and a messageStop line read while a tool is in progress puts one
\* "tool_done" and clears the flag.
C27_ToolDoneOnlyWhileInProgress ==
    /\ [](\A s \in Streams : \A i \in DOMAIN sent[s] :
             (kind[s] = "runtime" /\ sent[s][i].type = "tool_done")
             => \E j \in 1..(i - 1) :
                   /\ sent[s][j].type = "tool"
                   /\ \A k \in (j + 1)..(i - 1) : sent[s][k].type # "tool_done")
    /\ [][\A s \in Streams :
             ReadsLine(s)
             => /\ CountType(Issued(s), "tool_done") > CountType(sent[s], "tool_done")
                   => /\ ptool[s] /\ ~ptool'[s]
                      /\ CountType(Issued(s), "tool_done")
                            = CountType(sent[s], "tool_done") + 1
                /\ line'[s].k = "messageStop"
                   => /\ pfull'[s] = pfull[s] /\ ~ptool'[s]
                      /\ Issued(s) = sent[s] \o (IF ptool[s] THEN <<Ev("tool_done", <<>>)>>
                                                ELSE <<>>)]_vars

\* a tool start, then messageStop: one tool_done was put and the flag cleared
C27_Witness ==
    /\ view = "reducer" /\ nread["with"] = 2
    /\ line["with"].k = "messageStop"
    /\ sent["with"] = <<Ev("tool", <<UsingTool, "toolA">>), Ev("tool_done", <<>>)>>
    /\ ~ptool["with"]

\* neither the argument nor the environment gives a non-empty key
KeyMissing == inp.api_key \in {None, ""} /\ inp.env \in {None, ""}

PostedBy == Last(log).arg
PostedArgs == IF op \in Factories THEN inp ELSE PropertyArgs(inp)

\* C24: every payload a domain factory's tool posts has a non-empty
\* included_sources: the caller's list when that is non-empty, the factory's
\* default otherwise; max_price and relevance_threshold are in the payload
\* exactly when they are not None.
C24_DomainPayloadPinsSources ==
    (ncalls > 0 /\ PostedBy \in DomainFactories)
    => /\ "included_sources" \in DOMAIN payload
       /\ payload["included_sources"] # <<>>
       /\ payload["included_sources"] # NoList
       /\ payload["included_sources"]
             = (IF PostedArgs.included_sources \notin {NoList, <<>>}
                THEN PostedArgs.included_sources ELSE DefaultSources(PostedBy))
       /\ ("max_price" \in DOMAIN payload) <=> (PostedArgs.max_price # None)
       /\ ("relevance_threshold" \in DOMAIN payload)
             <=> (PostedArgs.relevance_threshold # None)

\* patentSearch made with an empty included_sources and max_price 0.0 has
\* posted a payload with its default source and with the price
C24_Witness ==
    /\ op = "patentSearch" /\ ncalls > 0
    /\ inp.included_sources = <<>> /\ inp.max_price = "0.0"
    /\ payload["included_sources"] = <<"valyu/valyu-patents">>
    /\ "max_price" \in DOMAIN payload /\ payload["max_price"] = "0.0"

\* the deletion calls made so far, in order
Deletions ==
    SelectSeq(log, LAMBDA e : e.what \in {"delete_gateway_target", "delete_gateway",
                                          "delete_user_pool"})

\* the try block of the user pool deletion was entered
PoolAttempted ==
    \E i \in DOMAIN log :
        \/ log[i].what = "delete_user_pool"
        \/ log[i].what = "boto3.client" /\ log[i].arg = "raises"

\* C28: cleanup_valyu_gateway attempts the deletions in the order target,
\* gateway, user pool, the last only when the config has a user pool id; a
\* deletion that fails neither stops the later ones nor raises to the caller.
C28_CleanupDeletesInOrder ==
    op = "cleanup_valyu_gateway"
    => /\ \A i \in DOMAIN Deletions :
             Deletions[i].what
                = <<"delete_gateway_target", "delete_gateway", "delete_user_pool">>[i]
       /\ PoolAttempted => Truthy(inp.cognito_user_pool_id)
       /\ lpc = "done"
          => /\ Len(Deletions) >= 2
             /\ Truthy(inp.cognito_user_pool_id) => PoolAttempted
       /\ lpc \in {"target", "gateway", "user_pool", "done"} => exc = "none"

\* the target and the gateway deletions failed, the user pool was deleted, and
\* cleanup returned
C28_Witness ==
    /\ op = "cleanup_valyu_gateway" /\ lpc = "done" /\ exc = "none"
    /\ Len(Deletions) = 3
    /\ Deletions[1].arg = "raises" /\ Deletions[2].arg = "raises"
    /\ Deletions[3] = Eff("delete_user_pool", "ok")

\* C29: outside an active with block (before __enter__ has completed, after
\* __exit__ has run) __call__ and list_tools raise RuntimeError.
C29_OnlyUsableInsideWith ==
    op = "GatewayAgent"
    => \A i \in DOMAIN log :
          (log[i].what \in {"__call__", "list_tools"} /\ log[i].at # "inside")
          => log[i].arg = "RuntimeError"

\* the number of log entries e.what = what with e.arg = arg
CountEff(what, arg) ==
    Cardinality({i \in DOMAIN log : log[i].what = what /\ log[i].arg = arg})

\* C30: when an invocation of a runtime entrypoint, or the with statement of a
\* GatewayAgent, is over, every MCP client whose __enter__ succeeded has had
\* its __exit__ called exactly once.
C30_OpenedMcpClientIsClosed ==
    (\/ op \in Entrypoints /\ lpc \in {"done", "raised"}
     \/ op = "GatewayAgent" /\ lpc \in {"exited", "enter raised"})
    => CountEff("mcp.__exit__", "ok") = CountEff("mcp.__enter__", "ok")

\* the text and tool events of an event sequence
NonTerminal(seq) == SelectSeq(seq, LAMBDA ev : ~IsTerminal(ev))

IsPrefix(a, b) == Len(a) <= Len(b) /\ SubSeq(b, 1, Len(a)) = a

\* C25: in gateway mode the text and tool events the agent produces while it
\* answers a query are put on the queue created for that query, and the
\* polling loop of that query has read them when it reads the done event.
C25_EventsReachTheirQuerysQueue ==
    \A q \in DOMAIN produced :
        /\ IsPrefix(produced[q], NonTerminal(qput[q]))
        /\ (qgot[q] # <<>> /\ IsTerminal(Last(qgot[q])))
           => NonTerminal(qgot[q]) = produced[q]

====
